---- MODULE Spec2Model ----
(***************************************************************************)
(* TailGrid: the GridEngine (sorting, filtering, pagination, selection)    *)
(* and its processors, as a state machine.  Each engine method is one      *)
(* action; the processors (sortData, filterData, globalFilterData,         *)
(* paginateData, getPaginationInfo) are operators computed as the code     *)
(* computes them.                                                          *)
(***************************************************************************)
EXTENDS Integers, Sequences, FiniteSets, TLC

VARIABLES data, columns, sorting, columnFilters, globalFilter, pagination,
          rowSelection, columnSizing, enableSorting, enableFiltering,
          enablePagination, enableRowSelection, enableMultiRowSelection,
          getRowId, tracing, last, held, request, settled,
          loading, error, result, history, pending, hook

dataVars == <<data, columns, getRowId>>
sortVars == <<sorting>>
filterVars == <<columnFilters, globalFilter>>
pageVars == <<pagination>>
selVars == <<rowSelection>>
sizeVars == <<columnSizing>>
flagVars == <<enableSorting, enableFiltering, enablePagination,
              enableRowSelection, enableMultiRowSelection>>
\* The AI pipeline: the call in hand and what it settled with
\* useAIQuery: its four pieces of state, the queries in flight and the
\* last thing the hook did
hookVars == <<loading, error, result, history, pending, hook>>
aiVars == <<request, settled, hookVars>>
gridVars == <<dataVars, sortVars, filterVars, pageVars, selVars, sizeVars,
              flagVars, tracing, last, held>>
vars == <<gridVars, aiVars>>

(***************************************************************************)
(* Bounds of the model.                                                    *)
(***************************************************************************)
MaxRows == 4
MaxSortRows == 3
MaxSort == 2
MaxRun == 3
MaxPageSize == 3

(***************************************************************************)
(* JavaScript values.  A value is a record [t, s, n, a]: t is the type     *)
(* tag, s the characters of a string, n the number, a the elements of an   *)
(* array.  A string is a sequence of one-character strings.                *)
(***************************************************************************)
Null == [t |-> "null", s |-> <<>>, n |-> 0, a |-> <<>>]
Undef == [t |-> "undef", s |-> <<>>, n |-> 0, a |-> <<>>]
Str(s) == [t |-> "str", s |-> s, n |-> 0, a |-> <<>>]
Num(n) == [t |-> "num", s |-> <<>>, n |-> n, a |-> <<>>]
Arr(a) == [t |-> "arr", s |-> <<>>, n |-> 0, a |-> a]

\* value == null  (true of null and of undefined)
IsNullish(v) == v.t \in {"null", "undef"}

Digits == <<"0", "1", "2", "3", "4", "5", "6", "7", "8", "9">>
IsDigit(c) == \E i \in 1..10 : Digits[i] = c
DigitValue(c) == (CHOOSE i \in 1..10 : Digits[i] = c) - 1

RECURSIVE NatToString(_)
NatToString(n) ==
  IF n < 10 THEN <<Digits[n + 1]>>
  ELSE NatToString(n \div 10) \o <<Digits[(n % 10) + 1]>>

IntToString(n) == IF n < 0 THEN <<"-">> \o NatToString(-n) ELSE NatToString(n)

RECURSIVE JoinWith(_, _)
JoinWith(strs, sep) ==
  IF Len(strs) = 0 THEN <<>>
  ELSE IF Len(strs) = 1 THEN strs[1]
  ELSE strs[1] \o sep \o JoinWith(Tail(strs), sep)

\* String(v) of a value that is not an array
ScalarStringOf(v) ==
  CASE v.t = "str" -> v.s
    [] v.t = "num" -> IntToString(v.n)
    [] v.t = "null" -> <<"n", "u", "l", "l">>
    [] v.t = "undef" -> <<"u", "n", "d", "e", "f", "i", "n", "e", "d">>
    [] OTHER -> <<>>

\* An array element joins as "" when it is null or undefined
ElementStringOf(v) == IF IsNullish(v) THEN <<>> ELSE ScalarStringOf(v)

\* String(v)
StringOf(v) ==
  IF v.t = "arr"
  THEN JoinWith([i \in 1..Len(v.a) |-> ElementStringOf(v.a[i])], <<",">>)
  ELSE ScalarStringOf(v)

LowerChar(c) ==
  CASE c = "A" -> "a"
    [] c = "B" -> "b"
    [] OTHER -> c

\* s.toLowerCase()
toLowerCase(s) == [i \in 1..Len(s) |-> LowerChar(s[i])]

RECURSIVE TrimStart(_)
TrimStart(s) ==
  IF Len(s) > 0 /\ s[1] = " " THEN TrimStart(Tail(s)) ELSE s

RECURSIVE TrimEnd(_)
TrimEnd(s) ==
  IF Len(s) > 0 /\ s[Len(s)] = " " THEN TrimEnd(SubSeq(s, 1, Len(s) - 1)) ELSE s

\* s.trim()
trim(s) == TrimEnd(TrimStart(s))

\* s.includes(sub)
includes(s, sub) ==
  \E i \in 1..(Len(s) + 1) :
    /\ i + Len(sub) - 1 <= Len(s)
    /\ SubSeq(s, i, i + Len(sub) - 1) = sub

\* s.startsWith(sub)
startsWith(s, sub) == Len(sub) <= Len(s) /\ SubSeq(s, 1, Len(sub)) = sub

\* s.endsWith(sub)
endsWith(s, sub) ==
  Len(sub) <= Len(s) /\ SubSeq(s, Len(s) - Len(sub) + 1, Len(s)) = sub

(***************************************************************************)
(* Number(v): a record [nan, v]; nan marks NaN.                            *)
(***************************************************************************)
NaN == [nan |-> TRUE, v |-> 0]
Finite(n) == [nan |-> FALSE, v |-> n]

RECURSIVE DigitsToNat(_)
DigitsToNat(s) ==
  IF Len(s) = 0 THEN 0
  ELSE 10 * DigitsToNat(SubSeq(s, 1, Len(s) - 1)) + DigitValue(s[Len(s)])

\* Number(s) of a string: white space is trimmed, "" is 0, anything that is
\* not a decimal numeral is NaN
StringToNumber(s) ==
  LET t == trim(s) IN
    IF Len(t) = 0 THEN Finite(0)
    ELSE IF \A i \in 1..Len(t) : IsDigit(t[i]) THEN Finite(DigitsToNat(t))
    ELSE IF Len(t) > 1 /\ t[1] = "-" /\ \A i \in 2..Len(t) : IsDigit(t[i])
         THEN Finite(-DigitsToNat(Tail(t)))
    ELSE NaN

NumberOf(v) ==
  CASE v.t = "num" -> Finite(v.n)
    [] v.t = "null" -> Finite(0)
    [] v.t = "undef" -> NaN
    [] OTHER -> StringToNumber(StringOf(v))

(***************************************************************************)
(* String.prototype.localeCompare(other, undefined, {numeric: true,        *)
(* sensitivity: 'base'}): case is ignored, a run of digits compares as a   *)
(* number, white space and punctuation sort before digits, digits before   *)
(* letters.  The result is -1, 0 or 1.                                     *)
(***************************************************************************)
Collation == <<" ", "-", ",", "0", "a", "b", "d", "e", "f", "i", "l", "n", "u">>
CharRank(c) ==
  LET k == IF IsDigit(c) THEN "0" ELSE LowerChar(c) IN
    CHOOSE i \in 1..Len(Collation) : Collation[i] = k

RECURSIVE DigitRunLen(_)
DigitRunLen(s) ==
  IF Len(s) > 0 /\ IsDigit(s[1]) THEN 1 + DigitRunLen(Tail(s)) ELSE 0

RECURSIVE localeCompare(_, _)
localeCompare(x, y) ==
  IF Len(x) = 0 /\ Len(y) = 0 THEN 0
  ELSE IF Len(x) = 0 THEN -1
  ELSE IF Len(y) = 0 THEN 1
  ELSE IF IsDigit(x[1]) /\ IsDigit(y[1])
    THEN LET dx == DigitRunLen(x)
             dy == DigitRunLen(y)
             nx == DigitsToNat(SubSeq(x, 1, dx))
             ny == DigitsToNat(SubSeq(y, 1, dy))
         IN IF nx < ny THEN -1
            ELSE IF nx > ny THEN 1
            ELSE localeCompare(SubSeq(x, dx + 1, Len(x)), SubSeq(y, dy + 1, Len(y)))
  ELSE IF CharRank(x[1]) < CharRank(y[1]) THEN -1
  ELSE IF CharRank(x[1]) > CharRank(y[1]) THEN 1
  ELSE localeCompare(Tail(x), Tail(y))

(***************************************************************************)
(* Columns and rows.  A column definition is a record; enableSorting and   *)
(* enableFiltering are FALSE exactly when the definition sets them to      *)
(* false (the code tests `=== false`).  A row is a record of values with   *)
(* a key k that tells rows of one data set apart.                          *)
(***************************************************************************)
Column(id, key, type, sortable, filterable) ==
  [id |-> id, accessorKey |-> key, dataType |-> type,
   enableSorting |-> sortable, enableFiltering |-> filterable,
   width |-> Undef, minWidth |-> Undef, maxWidth |-> Undef]

\* A column with width, minWidth and maxWidth: each a number or undefined
Sized(column, width, minWidth, maxWidth) ==
  [column EXCEPT !.width = width, !.minWidth = minWidth, !.maxWidth = maxWidth]

Columns ==
  << Column("name", "name", "string", TRUE, TRUE),
     Sized(Column("age", "age", "number", TRUE, TRUE), Num(120), Num(80), Num(200)),
     Sized(Column("tag", "tag", "string", FALSE, FALSE), Undef, Num(100), Undef) >>

ColumnIds == {"name", "age", "tag"}
\* "ghost" is the id of no column
AnyColumnIds == ColumnIds \cup {"ghost"}

Row(k, name, age, tag) == [k |-> k, name |-> name, age |-> age, tag |-> tag]

\* columns.find((c) => c.id === columnId) !== undefined
HasColumn(cols, columnId) == \E i \in 1..Len(cols) : cols[i].id = columnId

\* columns.find((c) => c.id === columnId): the first match
FindColumn(cols, columnId) ==
  cols[CHOOSE i \in 1..Len(cols) :
         /\ cols[i].id = columnId
         /\ \A j \in 1..(i - 1) : cols[j].id # columnId]

\* new Map(columns.map((col) => [col.id, col])).get(id): the last match
ColumnMapGet(cols, columnId) ==
  cols[CHOOSE i \in 1..Len(cols) :
         /\ cols[i].id = columnId
         /\ \A j \in (i + 1)..Len(cols) : cols[j].id # columnId]

getRowValue(row, column) ==
  IF column.accessorKey = "" THEN Undef ELSE row[column.accessorKey]

(***************************************************************************)
(* sorting.ts                                                              *)
(***************************************************************************)
compareValues(a, b, dataType) ==
  IF IsNullish(a) /\ IsNullish(b) THEN Finite(0)
  ELSE IF IsNullish(a) THEN Finite(1)
  ELSE IF IsNullish(b) THEN Finite(-1)
  ELSE IF dataType \in {"number", "currency"}
    THEN LET x == NumberOf(a)
             y == NumberOf(b)
         IN IF x.nan \/ y.nan THEN NaN ELSE Finite(x.v - y.v)
  ELSE Finite(localeCompare(StringOf(a), StringOf(b)))

\* The comparator sortData hands to Array.prototype.sort
RECURSIVE compareRows(_, _, _, _)
compareRows(rowA, rowB, srt, cols) ==
  IF Len(srt) = 0 THEN Finite(0)
  ELSE IF ~HasColumn(cols, srt[1].id) THEN compareRows(rowA, rowB, Tail(srt), cols)
  ELSE LET column == ColumnMapGet(cols, srt[1].id)
           compared == compareValues(getRowValue(rowA, column),
                                   getRowValue(rowB, column), column.dataType)
       IN IF compared.nan THEN NaN
          ELSE IF compared.v # 0
            THEN Finite(IF srt[1].desc THEN -compared.v ELSE compared.v)
          ELSE compareRows(rowA, rowB, Tail(srt), cols)

\* Array.prototype.sort reads a NaN from its comparator as 0
SortOrder(rowA, rowB, srt, cols) ==
  LET r == compareRows(rowA, rowB, srt, cols) IN IF r.nan THEN 0 ELSE r.v

\* Array.prototype.sort is stable: a row moves left only past rows that
\* compare greater
RECURSIVE InsertRow(_, _, _, _)
InsertRow(sorted, x, srt, cols) ==
  IF Len(sorted) = 0 THEN <<x>>
  ELSE IF SortOrder(sorted[Len(sorted)], x, srt, cols) > 0
    THEN Append(InsertRow(SubSeq(sorted, 1, Len(sorted) - 1), x, srt, cols),
                sorted[Len(sorted)])
  ELSE Append(sorted, x)

RECURSIVE StableSort(_, _, _)
StableSort(rows, srt, cols) ==
  IF Len(rows) = 0 THEN <<>>
  ELSE InsertRow(StableSort(SubSeq(rows, 1, Len(rows) - 1), srt, cols),
                 rows[Len(rows)], srt, cols)

\* sortData that compares by the first entry of the sort spec only
sortDataFirstEntryOnly(rows, srt, cols) ==
  IF Len(srt) = 0 THEN rows ELSE StableSort(rows, <<srt[1]>>, cols)

sortData(rows, srt, cols) ==
  IF Len(srt) = 0 THEN rows ELSE StableSort(rows, srt, cols)

(***************************************************************************)
(* filtering.ts.  A column filter is a record [id, operator, value].  The  *)
(* model has no Date values and no column of dataType 'date', so the date  *)
(* branches of matchesFilter are not taken.                                *)
(***************************************************************************)
Filter(id, operator, value) == [id |-> id, operator |-> operator, value |-> value]

\* a === b, of two values: arrays are equal only to themselves
StrictEquals(a, b) == a.t # "arr" /\ a = b

IsEmptyValue(value) ==
  \/ IsNullish(value)
  \/ (value.t = "str" /\ Len(value.s) = 0)
  \/ (value.t = "arr" /\ Len(value.a) = 0)

NumLess(x, y) == ~x.nan /\ ~y.nan /\ x.v < y.v
NumLessEq(x, y) == ~x.nan /\ ~y.nan /\ x.v <= y.v
NumEq(x, y) == ~x.nan /\ ~y.nan /\ x.v = y.v

matchesFilter(value, filter, dataType) ==
  LET filterValue == filter.value
      stringValue == toLowerCase(StringOf(value))
      stringFilterValue == toLowerCase(StringOf(filterValue))
      numeric == dataType \in {"number", "currency"}
  IN
  IF filter.operator = "isEmpty" THEN IsEmptyValue(value)
  ELSE IF filter.operator = "isNotEmpty" THEN ~IsEmptyValue(value)
  ELSE IF IsNullish(value) THEN FALSE
  ELSE CASE filter.operator = "equals" ->
              IF numeric THEN NumEq(NumberOf(value), NumberOf(filterValue))
              ELSE IF dataType = "boolean" THEN StrictEquals(value, filterValue)
              ELSE stringValue = stringFilterValue
         [] filter.operator = "notEquals" ->
              IF numeric THEN ~NumEq(NumberOf(value), NumberOf(filterValue))
              ELSE IF dataType = "boolean" THEN ~StrictEquals(value, filterValue)
              ELSE stringValue # stringFilterValue
         [] filter.operator = "contains" -> includes(stringValue, stringFilterValue)
         [] filter.operator = "notContains" -> ~includes(stringValue, stringFilterValue)
         [] filter.operator = "startsWith" -> startsWith(stringValue, stringFilterValue)
         [] filter.operator = "endsWith" -> endsWith(stringValue, stringFilterValue)
         [] filter.operator = "gt" -> NumLess(NumberOf(filterValue), NumberOf(value))
         [] filter.operator = "gte" -> NumLessEq(NumberOf(filterValue), NumberOf(value))
         [] filter.operator = "lt" -> NumLess(NumberOf(value), NumberOf(filterValue))
         [] filter.operator = "lte" -> NumLessEq(NumberOf(value), NumberOf(filterValue))
         [] filter.operator = "between" ->
              /\ filterValue.t = "arr"
              /\ Len(filterValue.a) = 2
              /\ NumLessEq(NumberOf(filterValue.a[1]), NumberOf(value))
              /\ NumLessEq(NumberOf(value), NumberOf(filterValue.a[2]))
         [] filter.operator = "inList" ->
              /\ filterValue.t = "arr"
              /\ \E i \in 1..Len(filterValue.a) :
                   toLowerCase(StringOf(filterValue.a[i])) = stringValue
         [] OTHER -> TRUE

\* columnFilters.every(...) of filterData, for one row
rowPassesFilters(row, filters, cols) ==
  \A i \in 1..Len(filters) :
    \/ ~HasColumn(cols, filters[i].id)
    \/ LET column == ColumnMapGet(cols, filters[i].id) IN
         matchesFilter(getRowValue(row, column), filters[i], column.dataType)

\* filterData with `some` in place of `every`: one matching filter suffices
filterDataAnyFilter(rows, filters, cols) ==
  IF Len(filters) = 0 THEN rows
  ELSE LET keep(row) ==
             \E i \in 1..Len(filters) :
               \/ ~HasColumn(cols, filters[i].id)
               \/ LET column == ColumnMapGet(cols, filters[i].id) IN
                    matchesFilter(getRowValue(row, column), filters[i], column.dataType)
       IN SelectSeq(rows, keep)

filterData(rows, filters, cols) ==
  IF Len(filters) = 0 THEN rows
  ELSE LET keep(row) == rowPassesFilters(row, filters, cols) IN SelectSeq(rows, keep)

\* columns.some(...) of globalFilterData, for one row
rowMatchesSearch(row, searchTerm, cols) ==
  \E i \in 1..Len(cols) :
    /\ cols[i].enableFiltering
    /\ LET value == getRowValue(row, cols[i]) IN
         /\ ~IsNullish(value)
         /\ includes(toLowerCase(StringOf(value)), searchTerm)

globalFilterData(rows, term, cols) ==
  IF Len(term) = 0 \/ Len(trim(term)) = 0 THEN rows
  ELSE LET searchTerm == trim(toLowerCase(term))
           keep(row) == rowMatchesSearch(row, searchTerm, cols)
       IN SelectSeq(rows, keep)

(***************************************************************************)
(* pagination.ts.  pageIndex >= 0 and pageSize >= 1 in every state of the  *)
(* model, so Array.prototype.slice is called with 0 <= start <= end.       *)
(***************************************************************************)
Min(a, b) == IF a < b THEN a ELSE b
Max(a, b) == IF a > b THEN a ELSE b

\* rows.slice(start, end) for 0 <= start <= end
slice(rows, start, end) == SubSeq(rows, start + 1, Min(end, Len(rows)))

\* paginateData with the page's last row cut off
paginateDataShort(rows, pg) ==
  LET start == pg.pageIndex * pg.pageSize
      end == start + pg.pageSize - 1
  IN slice(rows, start, Max(start, end))

paginateData(rows, pg) ==
  LET start == pg.pageIndex * pg.pageSize
      end == start + pg.pageSize
  IN slice(rows, start, end)

\* Math.ceil(a / b) for a >= 0 and b >= 1
CeilDiv(a, b) == (a + b - 1) \div b

getPaginationInfo(totalRows, pg) ==
  LET pageCount == CeilDiv(totalRows, pg.pageSize) IN
    [pageIndex |-> pg.pageIndex,
     pageSize |-> pg.pageSize,
     pageCount |-> pageCount,
     totalRows |-> totalRows,
     canPreviousPage |-> pg.pageIndex > 0,
     canNextPage |-> pg.pageIndex < pageCount - 1]

(***************************************************************************)
(* GridEngine: the views computed from the state.                          *)
(***************************************************************************)
getFilteredRows ==
  LET afterGlobal ==
        IF Len(globalFilter) > 0 THEN globalFilterData(data, globalFilter, columns)
        ELSE data
  IN IF Len(columnFilters) > 0 THEN filterData(afterGlobal, columnFilters, columns)
     ELSE afterGlobal

getSortedRows ==
  IF Len(sorting) > 0 THEN sortData(getFilteredRows, sorting, columns)
  ELSE getFilteredRows

getPaginatedRows ==
  IF enablePagination THEN paginateData(getSortedRows, pagination) ELSE getSortedRows

\* getPaginationInfo over the raw row count
getPaginationInfoOfAllRows == getPaginationInfo(Len(data), pagination)

GridEngine_getPaginationInfo == getPaginationInfo(Len(getSortedRows), pagination)

(***************************************************************************)
(* GridEngine: what each setter makes of the state it changes.             *)
(***************************************************************************)
SortEntry(id, desc) == [id |-> id, desc |-> desc]

\* sorting.find((s) => s.id === columnId) !== undefined
HasSort(srt, columnId) == \E i \in 1..Len(srt) : srt[i].id = columnId

\* sorting.find((s) => s.id === columnId): the first match
FindSort(srt, columnId) ==
  srt[CHOOSE i \in 1..Len(srt) :
        /\ srt[i].id = columnId
        /\ \A j \in 1..(i - 1) : srt[j].id # columnId]

\* toggleSort with the descending step missing: an ascending entry is removed
toggleSortSkipDescending(srt, cols, columnId, multi) ==
  IF ~HasColumn(cols, columnId) THEN srt
  ELSE IF ~FindColumn(cols, columnId).enableSorting THEN srt
  ELSE IF ~HasSort(srt, columnId)
    THEN IF multi THEN Append(srt, SortEntry(columnId, FALSE))
         ELSE <<SortEntry(columnId, FALSE)>>
  ELSE LET keep(e) == e.id # columnId IN SelectSeq(srt, keep)

\* toggleSort with the multi flag ignored: a new entry replaces the spec
toggleSortIgnoreMulti(srt, cols, columnId, multi) ==
  IF ~HasColumn(cols, columnId) THEN srt
  ELSE IF ~FindColumn(cols, columnId).enableSorting THEN srt
  ELSE IF ~HasSort(srt, columnId) THEN <<SortEntry(columnId, FALSE)>>
  ELSE IF ~FindSort(srt, columnId).desc
    THEN [i \in 1..Len(srt) |->
            IF srt[i].id = columnId THEN SortEntry(srt[i].id, TRUE) ELSE srt[i]]
  ELSE LET keep(e) == e.id # columnId IN SelectSeq(srt, keep)

toggleSort(srt, cols, columnId, multi) ==
  IF ~HasColumn(cols, columnId) THEN srt
  ELSE IF ~FindColumn(cols, columnId).enableSorting THEN srt
  ELSE IF ~HasSort(srt, columnId)
    THEN IF multi THEN Append(srt, SortEntry(columnId, FALSE))
         ELSE <<SortEntry(columnId, FALSE)>>
  ELSE IF ~FindSort(srt, columnId).desc
    THEN [i \in 1..Len(srt) |->
            IF srt[i].id = columnId THEN SortEntry(srt[i].id, TRUE) ELSE srt[i]]
  ELSE LET keep(e) == e.id # columnId IN SelectSeq(srt, keep)

\* columnFilters.find((f) => f.id === columnId) !== undefined
HasFilter(filters, columnId) == \E i \in 1..Len(filters) : filters[i].id = columnId

removeColumnFilter(filters, columnId) ==
  LET keep(f) == f.id # columnId IN SelectSeq(filters, keep)

\* setColumnFilter that rewrites the operator of the filter it updates
setColumnFilterResetOperator(filters, columnId, value) ==
  IF IsNullish(value) \/ (value.t = "str" /\ Len(value.s) = 0)
    THEN removeColumnFilter(filters, columnId)
  ELSE IF HasFilter(filters, columnId)
    THEN [i \in 1..Len(filters) |->
            IF filters[i].id = columnId
            THEN Filter(filters[i].id, "contains", value)
            ELSE filters[i]]
  ELSE Append(filters, Filter(columnId, "contains", value))

\* setColumnFilter that adds a filter without looking for one of the column
setColumnFilterAppendOnly(filters, columnId, value) ==
  IF IsNullish(value) \/ (value.t = "str" /\ Len(value.s) = 0)
    THEN removeColumnFilter(filters, columnId)
  ELSE Append(filters, Filter(columnId, "contains", value))

setColumnFilter(filters, columnId, value) ==
  IF IsNullish(value) \/ (value.t = "str" /\ Len(value.s) = 0)
    THEN removeColumnFilter(filters, columnId)
  ELSE IF HasFilter(filters, columnId)
    THEN [i \in 1..Len(filters) |->
            IF filters[i].id = columnId
            THEN Filter(filters[i].id, filters[i].operator, value)
            ELSE filters[i]]
  ELSE Append(filters, Filter(columnId, "contains", value))

setColumnFilterWithOperator(filters, filter) ==
  IF HasFilter(filters, filter.id)
    THEN [i \in 1..Len(filters) |->
            IF filters[i].id = filter.id THEN filter ELSE filters[i]]
  ELSE Append(filters, filter)

\* setPageIndex that clamps an index out of range to the nearest page
setPageIndexClamped(pg, pageCount, index) ==
  IF pageCount < 1 THEN pg
  ELSE [pageIndex |-> Max(0, Min(pageCount - 1, index)), pageSize |-> pg.pageSize]

setPageIndex(pg, pageCount, index) ==
  IF index >= 0 /\ index < pageCount
    THEN [pageIndex |-> index, pageSize |-> pg.pageSize]
  ELSE pg

setPageSize(pg, size) == [pageIndex |-> 0, pageSize |-> size]

\* rowSelection[rowId], read as a condition: a missing key is undefined
IsSelected(sel, rowId) == rowId \in DOMAIN sel /\ sel[rowId]

EmptyMap == <<>>

\* toggleRowSelection that selects the row whatever it was before
toggleRowSelectionSelectOnly(sel, rowId, enabled, multi) ==
  IF ~enabled THEN sel
  ELSE IF multi
    THEN [k \in DOMAIN sel \cup {rowId} |-> IF k = rowId THEN TRUE ELSE sel[k]]
  ELSE [k \in {rowId} |-> TRUE]

\* toggleRowSelection that keeps the other rows in single-select mode too
toggleRowSelectionKeepOthers(sel, rowId, enabled, multi) ==
  IF ~enabled THEN sel
  ELSE [k \in DOMAIN sel \cup {rowId} |->
          IF k = rowId THEN ~IsSelected(sel, rowId) ELSE sel[k]]

toggleRowSelection(sel, rowId, enabled, multi) ==
  IF ~enabled THEN sel
  ELSE IF multi
    THEN [k \in DOMAIN sel \cup {rowId} |->
            IF k = rowId THEN ~IsSelected(sel, rowId) ELSE sel[k]]
  ELSE IF IsSelected(sel, rowId) THEN EmptyMap
  ELSE [k \in {rowId} |-> TRUE]

\* value ?? default, for a number or undefined
NumberOr(value, default) == IF IsNullish(value) THEN default ELSE value.n

\* The constructor's columnSizing: the width of every column that has one
\* (if (col.width): neither undefined nor 0), the last column of an id winning
InitialColumnSizing(cols) ==
  LET sized == {i \in 1..Len(cols) : ~IsNullish(cols[i].width) /\ cols[i].width.n # 0}
  IN [id \in {cols[i].id : i \in sized} |->
        cols[CHOOSE i \in sized :
               /\ cols[i].id = id
               /\ \A j \in sized : cols[j].id = id => j <= i].width.n]

\* { ...map, [key]: value }
WithEntry(map, key, value) ==
  [k \in DOMAIN map \cup {key} |-> IF k = key THEN value ELSE map[k]]

\* setColumnSize that stores the size as given
setColumnSizeUnclamped(sizing, cols, columnId, size) ==
  IF ~HasColumn(cols, columnId) THEN sizing
  ELSE WithEntry(sizing, columnId, size)

setColumnSize(sizing, cols, columnId, size) ==
  IF ~HasColumn(cols, columnId) THEN sizing
  ELSE LET column == FindColumn(cols, columnId)
           minSize == NumberOr(column.minWidth, 50)
           maxSize == NumberOr(column.maxWidth, 500)
           clampedSize == Max(minSize, Min(maxSize, size))
       IN WithEntry(sizing, columnId, clampedSize)

resetColumnSize(sizing, cols, columnId) ==
  IF HasColumn(cols, columnId)
  THEN WithEntry(sizing, columnId, NumberOr(FindColumn(cols, columnId).width, 150))
  ELSE sizing

\* this.state.getRowId(row, index), index counted from 0
RowIdOf(row, index) ==
  IF getRowId = "index" THEN NatToString(index) ELSE NatToString(row.k)

\* The ids toggleAllRowsSelection and getIsAllRowsSelected give the rows of
\* a view: the index is the row's position in the view
ViewRowIds(rows) == [i \in 1..Len(rows) |-> RowIdOf(rows[i], i - 1)]

EveryRowSelected(sel, ids) == \A i \in 1..Len(ids) : IsSelected(sel, ids[i])

\* toggleAllRowsSelection that selects all and never clears
toggleAllRowsSelectionNeverClear(sel, ids, enabled, multi) ==
  IF ~enabled \/ ~multi THEN sel
  ELSE [k \in {ids[i] : i \in 1..Len(ids)} |-> TRUE]

toggleAllRowsSelection(sel, ids, enabled, multi) ==
  IF ~enabled \/ ~multi THEN sel
  ELSE IF EveryRowSelected(sel, ids) THEN EmptyMap
  ELSE [k \in {ids[i] : i \in 1..Len(ids)} |-> TRUE]

getIsAllRowsSelected ==
  LET allRows == getSortedRows
  IN IF Len(allRows) = 0 THEN FALSE
     ELSE EveryRowSelected(rowSelection, ViewRowIds(allRows))

\* Object.values(rowSelection).filter(Boolean).length
SelectedCount(sel) == Cardinality({k \in DOMAIN sel : sel[k]})

getIsSomeRowsSelected ==
  LET selectedCount == SelectedCount(rowSelection)
  IN selectedCount > 0 /\ selectedCount < Len(getSortedRows)

\* The ids getRowById, updateRow, setCellValue and removeRow give the rows:
\* the index is the row's position in data
DataRowIds(rows) == [i \in 1..Len(rows) |-> RowIdOf(rows[i], i - 1)]

\* { ...row, ...updates }
Spread(row, updates) ==
  [f \in DOMAIN row \cup DOMAIN updates |->
     IF f \in DOMAIN updates THEN updates[f] ELSE row[f]]

updateRow(rows, rowId, updates) ==
  [i \in 1..Len(rows) |->
     IF DataRowIds(rows)[i] = rowId THEN Spread(rows[i], updates) ELSE rows[i]]

setCellValue(rows, cols, rowId, columnId, value) ==
  IF ~HasColumn(cols, columnId) \/ FindColumn(cols, columnId).accessorKey = ""
  THEN rows
  ELSE LET key == FindColumn(cols, columnId).accessorKey
       IN [i \in 1..Len(rows) |->
             IF DataRowIds(rows)[i] = rowId
             THEN [rows[i] EXCEPT ![key] = value] ELSE rows[i]]

addRow(rows, row) == Append(rows, row)

removeRow(rows, rowId) ==
  LET keep == {i \in 1..Len(rows) : DataRowIds(rows)[i] # rowId}
      RECURSIVE Kept(_)
      Kept(i) == IF i = 0 THEN <<>>
                 ELSE IF i \in keep THEN Append(Kept(i - 1), rows[i])
                 ELSE Kept(i - 1)
  IN Kept(Len(rows))

\* No call of the AI pipeline was made yet
NoResult ==
  [filters |-> <<>>, sorting |-> <<>>, query |-> Undef, confidence |-> Undef,
   error |-> Undef, rawResponse |-> <<>>]
NoOutcome == [how |-> "none", text |-> <<>>, isError |-> FALSE, message |-> Undef]
NoRequest ==
  [fn |-> "none", query |-> Undef, text |-> <<>>, api |-> NoOutcome,
   provider |-> "", options |-> Undef, signal |-> Undef]
NotSettled == [how |-> "none", value |-> NoResult]

\* What a call of the hook's query came to, for its caller: nothing yet,
\* the result it resolved with or the value it rejected with (an Error
\* with a message, or something else)
HookOutcome(how, value, isError, message) ==
  [how |-> how, value |-> value, isError |-> isError, message |-> message]
NoHookOutcome == HookOutcome("none", NoResult, FALSE, Undef)

\* What the hook did last: the call, its input, what the provider's
\* promise settled with, what the caller got, and what onResult and onError
\* were called with.  clock counts the calls of query and the settlements
\* so far; it stands for new Date().  issued is the clock at which the call
\* was made.
HookEvent(event, clock, issued, input, promise, returned, onResult, onError) ==
  [event |-> event, clock |-> clock, issued |-> issued, input |-> input,
   promise |-> promise,
   returned |-> returned, onResult |-> onResult, onError |-> onError]
NotCalled == [called |-> FALSE, value |-> NoResult, message |-> Undef]

\* useAIQuery before any call: useState(false), useState(null) (null of
\* result is NoResult), useState(null), useState([])
useAIQuery ==
  /\ loading = FALSE
  /\ error = Null
  /\ result = NoResult
  /\ history = <<>>
  /\ pending = {}
  /\ hook = HookEvent("none", 0, 0, Undef, NoHookOutcome, NoHookOutcome, NotCalled,
                      NotCalled)

(***************************************************************************)
(* The record of the last call.  It is kept only when tracing is set: the  *)
(* call and its arguments, and for the calls in TrackedOps the state the   *)
(* call started from (pre), the number n of consecutive calls of the same  *)
(* method on the same column and row so far (counted up to MaxRun) and the *)
(* state the first of them started from (pre0).  For toggleRowSelection    *)
(* that directly follows a toggleRowSelection, prior is that earlier call. *)
(***************************************************************************)
Snap ==
  [sorting |-> sorting, columnFilters |-> columnFilters,
   globalFilter |-> globalFilter, pagination |-> pagination,
   rowSelection |-> rowSelection]

NoSnap ==
  [sorting |-> <<>>, columnFilters |-> <<>>, globalFilter |-> <<>>,
   pagination |-> [pageIndex |-> 0, pageSize |-> 1], rowSelection |-> <<>>]

TrackedOps ==
  {"toggleSort", "setColumnFilter", "setPageIndex", "toggleRowSelection",
   "toggleAllRowsSelection"}

Call(op, col, multi, row, val, idx) ==
  [op |-> op, col |-> col, multi |-> multi, row |-> row, val |-> val, idx |-> idx]

NoCall == Call("new", "", FALSE, <<>>, Null, 0)

Note(c) ==
  IF ~tracing THEN last
  ELSE IF c.op \notin TrackedOps
    THEN [call |-> c, n |-> 1, pre |-> NoSnap, pre0 |-> NoSnap, prior |-> NoCall]
  ELSE LET again == /\ last.call.op = c.op
                    /\ last.call.col = c.col
                    /\ last.call.row = c.row
                    /\ last.n < MaxRun
       IN [call |-> c,
           n |-> IF again THEN last.n + 1 ELSE 1,
           pre |-> Snap,
           pre0 |-> IF again THEN last.pre0 ELSE Snap,
           prior |-> IF c.op = "toggleRowSelection" /\ last.call.op = c.op
                     THEN last.call ELSE NoCall]

(***************************************************************************)
(* Objects.  The getters getSorting, getColumnFilters, getRowSelection,    *)
(* getColumnSizing and getAllRows return the object the engine state       *)
(* holds, not a copy.  held is the object a caller got from one of them:   *)
(* the field it came from, its content when it was returned, its content   *)
(* now, and whether the engine state still holds that same object.         *)
(***************************************************************************)
NotHeld == [field |-> "none", value |-> <<>>, now |-> <<>>, same |-> FALSE]

\* return this.state[field]
HandedOut(field, value) ==
  [field |-> field, value |-> value, now |-> value, same |-> TRUE]

\* this.state[field] = a new object, when the method gets as far as the
\* assignment: the caller's object is no longer the engine's
Reassigned(h, field, did) ==
  IF h.field = field /\ did THEN [h EXCEPT !.same = FALSE] ELSE h

\* this.state[field][key] = ..., when the method gets as far as the
\* assignment: the caller's object is the engine's and changes with it
MutatedInPlace(h, field, did, value) ==
  IF h.field = field /\ h.same /\ did THEN [h EXCEPT !.now = value] ELSE h

(***************************************************************************)
(* GridEngine: one action per method.                                      *)
(***************************************************************************)
SetSorting(srt) ==
  /\ sorting' = srt
  /\ held' = Reassigned(held, "sorting", TRUE)
  /\ last' = Note(Call("setSorting", "", FALSE, <<>>, Null, 0))
  /\ UNCHANGED <<dataVars, filterVars, pageVars, selVars, sizeVars, flagVars, tracing, aiVars>>

ToggleSort(columnId, multi) ==
  /\ sorting' = toggleSort(sorting, columns, columnId, multi)
  /\ held' = Reassigned(held, "sorting", HasColumn(columns, columnId)
                         /\ FindColumn(columns, columnId).enableSorting)
  /\ last' = Note(Call("toggleSort", columnId, multi, <<>>, Null, 0))
  /\ UNCHANGED <<dataVars, filterVars, pageVars, selVars, sizeVars, flagVars, tracing, aiVars>>

ClearSorting ==
  /\ sorting' = <<>>
  /\ held' = Reassigned(held, "sorting", TRUE)
  /\ last' = Note(Call("clearSorting", "", FALSE, <<>>, Null, 0))
  /\ UNCHANGED <<dataVars, filterVars, pageVars, selVars, sizeVars, flagVars, tracing, aiVars>>

SetColumnFilter(columnId, value) ==
  /\ columnFilters' = setColumnFilter(columnFilters, columnId, value)
  /\ held' = Reassigned(held, "columnFilters", TRUE)
  /\ last' = Note(Call("setColumnFilter", columnId, FALSE, <<>>, value, 0))
  /\ UNCHANGED <<dataVars, sortVars, globalFilter, pageVars, selVars, sizeVars,
                 flagVars, tracing, aiVars>>

SetColumnFilterWithOperator(filter) ==
  /\ columnFilters' = setColumnFilterWithOperator(columnFilters, filter)
  /\ held' = Reassigned(held, "columnFilters", TRUE)
  /\ last' = Note(Call("setColumnFilterWithOperator", filter.id, FALSE, <<>>,
                       filter.value, 0))
  /\ UNCHANGED <<dataVars, sortVars, globalFilter, pageVars, selVars, sizeVars,
                 flagVars, tracing, aiVars>>

RemoveColumnFilter(columnId) ==
  /\ columnFilters' = removeColumnFilter(columnFilters, columnId)
  /\ held' = Reassigned(held, "columnFilters", TRUE)
  /\ last' = Note(Call("removeColumnFilter", columnId, FALSE, <<>>, Null, 0))
  /\ UNCHANGED <<dataVars, sortVars, globalFilter, pageVars, selVars, sizeVars,
                 flagVars, tracing, aiVars>>

SetGlobalFilter(term) ==
  /\ globalFilter' = term
  /\ last' = Note(Call("setGlobalFilter", "", FALSE, <<>>, Str(term), 0))
  /\ UNCHANGED <<dataVars, sortVars, columnFilters, pageVars, selVars, sizeVars,
                 flagVars, tracing, held, aiVars>>

ClearFilters ==
  /\ columnFilters' = <<>>
  /\ globalFilter' = <<>>
  /\ held' = Reassigned(held, "columnFilters", TRUE)
  /\ last' = Note(Call("clearFilters", "", FALSE, <<>>, Null, 0))
  /\ UNCHANGED <<dataVars, sortVars, pageVars, selVars, sizeVars, flagVars, tracing, aiVars>>

SetPageIndex(index) ==
  /\ pagination' = setPageIndex(pagination, GridEngine_getPaginationInfo.pageCount, index)
  /\ last' = Note(Call("setPageIndex", "", FALSE, <<>>, Null, index))
  /\ UNCHANGED <<dataVars, sortVars, filterVars, selVars, sizeVars, flagVars, tracing, held, aiVars>>

SetPageSize(size) ==
  /\ pagination' = setPageSize(pagination, size)
  /\ last' = Note(Call("setPageSize", "", FALSE, <<>>, Null, size))
  /\ UNCHANGED <<dataVars, sortVars, filterVars, selVars, sizeVars, flagVars, tracing, held, aiVars>>

NextPage ==
  /\ LET info == GridEngine_getPaginationInfo IN
       pagination' = IF info.canNextPage
                     THEN setPageIndex(pagination, info.pageCount, pagination.pageIndex + 1)
                     ELSE pagination
  /\ last' = Note(Call("nextPage", "", FALSE, <<>>, Null, 0))
  /\ UNCHANGED <<dataVars, sortVars, filterVars, selVars, sizeVars, flagVars, tracing, held, aiVars>>

PreviousPage ==
  /\ LET info == GridEngine_getPaginationInfo IN
       pagination' = IF info.canPreviousPage
                     THEN setPageIndex(pagination, info.pageCount, pagination.pageIndex - 1)
                     ELSE pagination
  /\ last' = Note(Call("previousPage", "", FALSE, <<>>, Null, 0))
  /\ UNCHANGED <<dataVars, sortVars, filterVars, selVars, sizeVars, flagVars, tracing, held, aiVars>>

FirstPage ==
  /\ pagination' = setPageIndex(pagination, GridEngine_getPaginationInfo.pageCount, 0)
  /\ last' = Note(Call("firstPage", "", FALSE, <<>>, Null, 0))
  /\ UNCHANGED <<dataVars, sortVars, filterVars, selVars, sizeVars, flagVars, tracing, held, aiVars>>

LastPage ==
  /\ LET info == GridEngine_getPaginationInfo IN
       pagination' = setPageIndex(pagination, info.pageCount, info.pageCount - 1)
  /\ last' = Note(Call("lastPage", "", FALSE, <<>>, Null, 0))
  /\ UNCHANGED <<dataVars, sortVars, filterVars, selVars, sizeVars, flagVars, tracing, held, aiVars>>

SetRowSelection(sel) ==
  /\ rowSelection' = sel
  /\ held' = Reassigned(held, "rowSelection", TRUE)
  /\ last' = Note(Call("setRowSelection", "", FALSE, <<>>, Null, 0))
  /\ UNCHANGED <<dataVars, sortVars, filterVars, pageVars, sizeVars, flagVars, tracing, aiVars>>

ToggleRowSelection(rowId) ==
  /\ rowSelection' = toggleRowSelection(rowSelection, rowId, enableRowSelection,
                                        enableMultiRowSelection)
  /\ held' = Reassigned(held, "rowSelection", enableRowSelection)
  /\ last' = Note(Call("toggleRowSelection", "", FALSE, rowId, Null, 0))
  /\ UNCHANGED <<dataVars, sortVars, filterVars, pageVars, sizeVars, flagVars, tracing, aiVars>>

SetColumnSize(columnId, size) ==
  /\ columnSizing' = setColumnSize(columnSizing, columns, columnId, size)
  /\ held' = Reassigned(held, "columnSizing", HasColumn(columns, columnId))
  /\ last' = Note(Call("setColumnSize", columnId, FALSE, <<>>, Null, size))
  /\ UNCHANGED <<dataVars, sortVars, filterVars, pageVars, selVars, flagVars, tracing, aiVars>>

ResetColumnSize(columnId) ==
  /\ columnSizing' = resetColumnSize(columnSizing, columns, columnId)
  /\ held' = MutatedInPlace(held, "columnSizing", HasColumn(columns, columnId),
                          resetColumnSize(columnSizing, columns, columnId))
  /\ last' = Note(Call("resetColumnSize", columnId, FALSE, <<>>, Null, 0))
  /\ UNCHANGED <<dataVars, sortVars, filterVars, pageVars, selVars, flagVars, tracing, aiVars>>

ToggleAllRowsSelection ==
  /\ rowSelection' = toggleAllRowsSelection(rowSelection, ViewRowIds(getSortedRows),
                                            enableRowSelection,
                                            enableMultiRowSelection)
  /\ held' = Reassigned(held, "rowSelection", enableRowSelection /\ enableMultiRowSelection)
  /\ last' = Note(Call("toggleAllRowsSelection", "", FALSE, <<>>, Null, 0))
  /\ UNCHANGED <<dataVars, sortVars, filterVars, pageVars, sizeVars, flagVars, tracing, aiVars>>

ClearSelection ==
  /\ rowSelection' = EmptyMap
  /\ held' = Reassigned(held, "rowSelection", TRUE)
  /\ last' = Note(Call("clearSelection", "", FALSE, <<>>, Null, 0))
  /\ UNCHANGED <<dataVars, sortVars, filterVars, pageVars, sizeVars, flagVars, tracing, aiVars>>

UpdateRow(rowId, updates) ==
  /\ data' = updateRow(data, rowId, updates)
  /\ held' = Reassigned(held, "data", TRUE)
  /\ last' = Note(Call("updateRow", "", FALSE, rowId, Null, 0))
  /\ UNCHANGED <<columns, getRowId, sortVars, filterVars, pageVars, selVars,
                 sizeVars, flagVars, tracing, aiVars>>

SetCellValue(rowId, columnId, value) ==
  /\ data' = setCellValue(data, columns, rowId, columnId, value)
  /\ held' = Reassigned(held, "data", HasColumn(columns, columnId)
                         /\ FindColumn(columns, columnId).accessorKey # "")
  /\ last' = Note(Call("setCellValue", columnId, FALSE, rowId, value, 0))
  /\ UNCHANGED <<columns, getRowId, sortVars, filterVars, pageVars, selVars,
                 sizeVars, flagVars, tracing, aiVars>>

\* The model adds a row while data holds fewer than MaxRows rows
AddRow(row) ==
  /\ Len(data) < MaxRows
  /\ data' = addRow(data, row)
  /\ held' = Reassigned(held, "data", TRUE)
  /\ last' = Note(Call("addRow", "", FALSE, <<>>, Null, 0))
  /\ UNCHANGED <<columns, getRowId, sortVars, filterVars, pageVars, selVars,
                 sizeVars, flagVars, tracing, aiVars>>

RemoveRow(rowId) ==
  /\ data' = removeRow(data, rowId)
  /\ held' = Reassigned(held, "data", TRUE)
  /\ last' = Note(Call("removeRow", "", FALSE, rowId, Null, 0))
  /\ UNCHANGED <<columns, getRowId, sortVars, filterVars, pageVars, selVars,
                 sizeVars, flagVars, tracing, aiVars>>

\* An option of setOptions is "true", "false" or "unset" (undefined)
OptionOr(option, default) ==
  IF option = "unset" THEN default ELSE option = "true"

SetOptions(sortOn, filterOn, pageOn, selOn, multiOn) ==
  /\ enableSorting' = OptionOr(sortOn, TRUE)
  /\ enableFiltering' = OptionOr(filterOn, TRUE)
  /\ enablePagination' = OptionOr(pageOn, FALSE)
  /\ enableRowSelection' = OptionOr(selOn, FALSE)
  /\ enableMultiRowSelection' = OptionOr(multiOn, TRUE)
  /\ last' = Note(Call("setOptions", "", FALSE, <<>>, Null, 0))
  /\ UNCHANGED <<dataVars, sortVars, filterVars, pageVars, selVars, sizeVars, tracing, held, aiVars>>

SetData(rows) ==
  /\ data' = rows
  /\ held' = Reassigned(held, "data", TRUE)
  /\ last' = Note(Call("setData", "", FALSE, <<>>, Null, 0))
  /\ UNCHANGED <<columns, getRowId, sortVars, filterVars, pageVars, selVars,
                 sizeVars, flagVars, tracing, aiVars>>

(***************************************************************************)
(* The constructor, and the inputs the actions draw from.                  *)
(***************************************************************************)
\* options.initialPagination ?? { pageIndex: 0, pageSize: 10 }
DefaultPagination == [pageIndex |-> 0, pageSize |-> 10]

\* getRowId is "index" for the default (_, index) => String(index) and "key"
\* for an options.getRowId that returns the row's own key
ConstructOf(cols, rows, srt, filters, term, pg, sel, sortOn, filterOn, pageOn, selOn, multiOn, rowId, tr) ==
  /\ data = rows
  /\ getRowId = rowId
  /\ columns = cols
  /\ sorting = srt
  /\ columnFilters = filters
  /\ globalFilter = term
  /\ pagination = pg
  /\ rowSelection = sel
  /\ columnSizing = InitialColumnSizing(cols)
  /\ enableSorting = sortOn
  /\ enableFiltering = filterOn
  /\ enablePagination = pageOn
  /\ enableRowSelection = selOn
  /\ enableMultiRowSelection = multiOn
  /\ tracing = tr
  /\ last = [call |-> NoCall, n |-> 0, pre |-> NoSnap, pre0 |-> NoSnap,
             prior |-> NoCall]
  /\ held = NotHeld
  /\ request = NoRequest
  /\ settled = NotSettled
  /\ useAIQuery

\* The constructor with the columns of the model
ConstructWith(rows, srt, filters, term, pg, sel, sortOn, filterOn, pageOn, selOn, multiOn, rowId, tr) ==
  ConstructOf(Columns, rows, srt, filters, term, pg, sel, sortOn, filterOn, pageOn,
              selOn, multiOn, rowId, tr)

\* The constructor without options.getRowId
Construct(rows, srt, filters, term, pg, sel, sortOn, filterOn, pageOn, selOn, multiOn, tr) ==
  ConstructWith(rows, srt, filters, term, pg, sel, sortOn, filterOn, pageOn, selOn,
                multiOn, "index", tr)

\* The rows data sets are made of: name, age, tag
RowValues ==
  << <<Str(<<"a">>), Num(2), Str(<<"b">>)>>,
     <<Str(<<"A", "b">>), Null, Null>>,
     <<Null, Num(1), Str(<<"a">>)>>,
     <<Str(<<>>), Num(10), Null>> >>

RowAt(k, i) == Row(k, RowValues[i][1], RowValues[i][2], RowValues[i][3])

\* The data sets of n rows: row k of a data set has key k
DataSetsOfLen(n) ==
  {[k \in 1..n |-> RowAt(k, pick[k])] : pick \in [1..n -> 1..Len(RowValues)]}

DataSets == UNION {DataSetsOfLen(n) : n \in 0..MaxSortRows}

\* One data set of each length
PlainData(n) == [k \in 1..n |-> RowAt(k, ((k - 1) % Len(RowValues)) + 1)]

SortableIds == {"name", "age"}
SortEntries == {SortEntry(id, desc) : id \in SortableIds, desc \in BOOLEAN}
SortInputs == UNION {[1..n -> SortEntries] : n \in 0..MaxSort}

(***************************************************************************)
(* Sorting state: the constructor with an initial sort spec, then          *)
(* setSorting, toggleSort and clearSorting in any order.                   *)
(***************************************************************************)
InitSort ==
  \E srt \in {<<>>, <<SortEntry("age", TRUE), SortEntry("name", FALSE)>>} :
    Construct(PlainData(MaxRows), srt, <<>>, <<>>, DefaultPagination, EmptyMap,
              TRUE, TRUE, FALSE, FALSE, TRUE, TRUE)

NextSort ==
  \/ \E srt \in SortInputs : SetSorting(srt)
  \/ \E columnId \in AnyColumnIds, multi \in BOOLEAN : ToggleSort(columnId, multi)
  \/ ClearSorting

SpecSort == InitSort /\ [][NextSort]_vars

SortStateOf(srt, columnId) ==
  IF ~HasSort(srt, columnId) THEN "unsorted"
  ELSE IF FindSort(srt, columnId).desc THEN "descending"
  ELSE "ascending"

IsSortable(columnId) ==
  HasColumn(columns, columnId) /\ FindColumn(columns, columnId).enableSorting

ToggledSortable ==
  last.call.op = "toggleSort" /\ IsSortable(last.call.col)

\* C1: a toggleSort of an existing sortable column c takes c from unsorted
\* to ascending, from ascending to descending and from descending to
\* unsorted; three consecutive toggles of an unsorted c leave it unsorted.
C1_ToggleCycle ==
  ToggledSortable =>
    LET c == last.call.col
        before == SortStateOf(last.pre.sorting, c)
        after == SortStateOf(sorting, c)
    IN /\ before = "unsorted" => after = "ascending"
       /\ before = "ascending" => after = "descending"
       /\ before = "descending" => after = "unsorted"
       /\ (last.n = 3 /\ SortStateOf(last.pre0.sorting, c) = "unsorted")
            => after = "unsorted"

C1_Witness ==
  /\ ToggledSortable
  /\ last.n = 3
  /\ SortStateOf(last.pre0.sorting, last.call.col) = "unsorted"
  /\ SortStateOf(last.pre.sorting, last.call.col) = "descending"
  /\ SortStateOf(sorting, last.call.col) = "unsorted"

\* C2: after toggleSort(c, multi = false) of an existing sortable column c
\* the sort spec holds no entry of a column other than c.
C2_SingleToggleReplaces ==
  (ToggledSortable /\ ~last.call.multi) =>
    \A i \in 1..Len(sorting) : sorting[i].id = last.call.col

OtherEntries(srt, columnId) ==
  LET keep(e) == e.id # columnId IN SelectSeq(srt, keep)

\* C3: toggleSort(c, multi = true) leaves the entries of every other column
\* as they were, in direction and in order, and appends the ascending entry
\* of an unsorted c after all of them.
C3_MultiToggleFrame ==
  (last.call.op = "toggleSort" /\ last.call.multi) =>
    LET c == last.call.col IN
      /\ OtherEntries(sorting, c) = OtherEntries(last.pre.sorting, c)
      /\ (IsSortable(c) /\ ~HasSort(last.pre.sorting, c))
           => sorting = Append(last.pre.sorting, SortEntry(c, FALSE))

C3_Witness ==
  /\ ToggledSortable
  /\ last.call.multi
  /\ Len(last.pre.sorting) > 0
  /\ ~HasSort(last.pre.sorting, last.call.col)
  /\ Len(sorting) = Len(last.pre.sorting) + 1
  /\ sorting[Len(sorting)] = SortEntry(last.call.col, FALSE)

(***************************************************************************)
(* The sorted view: any data set under any sort spec.                      *)
(***************************************************************************)
InitSortView ==
  \E rows \in DataSets :
    Construct(rows, <<>>, <<>>, <<>>, DefaultPagination, EmptyMap,
              TRUE, TRUE, FALSE, FALSE, TRUE, FALSE)

NextSortView ==
  \/ \E srt \in SortInputs : SetSorting(srt)
  \/ \E columnId \in SortableIds, multi \in BOOLEAN : ToggleSort(columnId, multi)
  \/ ClearSorting

SpecSortView == InitSortView /\ [][NextSortView]_vars

\* C4: under a single-column sort spec, ascending or descending, no row
\* whose value in the sort column is null or undefined stands ahead of a
\* row whose value is defined.
C4_NullsLast ==
  (Len(sorting) = 1 /\ HasColumn(columns, sorting[1].id)) =>
    LET column == FindColumn(columns, sorting[1].id)
        view == getSortedRows
    IN \A i, j \in 1..Len(view) :
         (i < j /\ IsNullish(getRowValue(view[i], column)))
           => IsNullish(getRowValue(view[j], column))

(***************************************************************************)
(* Filter state: the constructor with initial column filters, then the     *)
(* filter setters in any order.                                            *)
(***************************************************************************)
FilterValues == {Null, Undef, Str(<<>>), Str(<<"a">>), Num(1)}

FilterInputs ==
  {Filter("age", "gt", Num(1)),
   Filter("name", "equals", Str(<<"a", "b">>)),
   Filter("name", "contains", Str(<<"b">>))}

InitFilter ==
  \E filters \in {<<>>, <<Filter("age", "gte", Num(2))>>} :
    Construct(PlainData(MaxRows), <<>>, filters, <<>>, DefaultPagination, EmptyMap,
              TRUE, TRUE, FALSE, FALSE, TRUE, TRUE)

NextFilter ==
  \/ \E columnId \in {"name", "age", "ghost"}, value \in FilterValues :
       SetColumnFilter(columnId, value)
  \/ \E filter \in FilterInputs : SetColumnFilterWithOperator(filter)
  \/ \E columnId \in {"name", "age"} : RemoveColumnFilter(columnId)
  \/ ClearFilters

SpecFilter == InitFilter /\ [][NextFilter]_vars

FiltersOf(filters, columnId) ==
  LET keep(f) == f.id = columnId IN SelectSeq(filters, keep)

RemovesFilter(value) == IsNullish(value) \/ value = Str(<<>>)

\* C5 as claimed: setColumnFilter(c, v) with v null, undefined or '' leaves
\* no filter of c; with any other v it leaves exactly one filter of c, with
\* value v and operator 'contains'.
C5_FilterIsContains ==
  last.call.op = "setColumnFilter" =>
    LET mine == FiltersOf(columnFilters, last.call.col) IN
      IF RemovesFilter(last.call.val) THEN Len(mine) = 0
      ELSE mine = <<Filter(last.call.col, "contains", last.call.val)>>

\* C5 as amended: with any other v it leaves exactly one filter of c, with
\* value v; its operator is 'contains' when c had no filter before the call
\* and is the operator of c's filter when it had one.
C5_FilterKeepsOperator ==
  last.call.op = "setColumnFilter" =>
    LET mine == FiltersOf(columnFilters, last.call.col)
        was == FiltersOf(last.pre.columnFilters, last.call.col)
    IN IF RemovesFilter(last.call.val) THEN Len(mine) = 0
       ELSE mine = <<Filter(last.call.col,
                            IF Len(was) = 0 THEN "contains" ELSE was[1].operator,
                            last.call.val)>>

C5_Witness ==
  /\ last.call.op = "setColumnFilter"
  /\ ~RemovesFilter(last.call.val)
  /\ HasFilter(last.pre.columnFilters, last.call.col)
  /\ FiltersOf(last.pre.columnFilters, last.call.col)[1].operator = "gt"
  /\ FiltersOf(columnFilters, last.call.col) = <<Filter(last.call.col, "gt", last.call.val)>>

(***************************************************************************)
(* The filtered view: data sets of every length under the column filters   *)
(* and global terms the setters build.                                     *)
(***************************************************************************)
SearchTerms == {<<>>, <<" ">>, <<"a">>, <<" ", "A">>, <<"1">>, <<"b">>}

ViewFilters ==
  {Filter("name", "contains", Str(<<"A">>)),
   Filter("name", "equals", Str(<<"a", "B">>)),
   Filter("name", "isEmpty", Null),
   Filter("name", "matches", Str(<<"a">>)),
   Filter("age", "gt", Num(1)),
   Filter("age", "between", Arr(<<Num(2), Str(<<"1", "0">>)>>)),
   Filter("age", "notEquals", Str(<<"2">>)),
   Filter("tag", "isNotEmpty", Null),
   Filter("ghost", "equals", Str(<<"a">>))}

InitFilterView ==
  \E n \in 0..MaxRows :
    Construct(PlainData(n), <<>>, <<>>, <<>>, DefaultPagination, EmptyMap,
              TRUE, TRUE, FALSE, FALSE, TRUE, FALSE)

NextFilterView ==
  \/ \E filter \in ViewFilters : SetColumnFilterWithOperator(filter)
  \/ \E value \in {Str(<<>>), Str(<<"b">>)} : SetColumnFilter("name", value)
  \/ \E term \in SearchTerms : SetGlobalFilter(term)
  \/ ClearFilters

SpecFilterView == InitFilterView /\ [][NextFilterView]_vars

RowSet(rows) == {rows[i] : i \in 1..Len(rows)}

\* rows holds rows of data, each at most once, in the order of data
InDataOrder(rows) ==
  /\ RowSet(rows) \subseteq RowSet(data)
  /\ \A i, j \in 1..Len(rows) : i < j => rows[i].k < rows[j].k

\* The row's value in some filterable column contains the term, case ignored
ContainsTerm(row, term) ==
  \E i \in 1..Len(columns) :
    /\ columns[i].enableFiltering
    /\ ~IsNullish(getRowValue(row, columns[i]))
    /\ includes(toLowerCase(StringOf(getRowValue(row, columns[i]))), toLowerCase(term))

\* The row matches every column filter whose column exists
MatchesColumnFilters(row) ==
  \A i \in 1..Len(columnFilters) :
    HasColumn(columns, columnFilters[i].id) =>
      LET column == FindColumn(columns, columnFilters[i].id) IN
        matchesFilter(getRowValue(row, column), columnFilters[i], column.dataType)

\* Two column filters give the rows both give alone
TwoFiltersIntersect ==
  (Len(columnFilters) = 2 /\ Len(globalFilter) = 0) =>
    RowSet(getFilteredRows) =
      RowSet(filterData(data, <<columnFilters[1]>>, columns))
        \cap RowSet(filterData(data, <<columnFilters[2]>>, columns))

\* C6 as claimed: getFilteredRows is the rows of data, in data order and
\* each once, that contain the global term (when one is set) in a
\* filterable column and match every column filter whose column exists.
C6_FilteredRowsOfTerm ==
  /\ InDataOrder(getFilteredRows)
  /\ RowSet(getFilteredRows) =
       {row \in RowSet(data) :
          /\ Len(globalFilter) > 0 => ContainsTerm(row, globalFilter)
          /\ MatchesColumnFilters(row)}
  /\ TwoFiltersIntersect

\* C6 as amended: the global term is matched with its leading and trailing
\* white space trimmed, and a term that is empty once trimmed excludes no
\* row.
C6_FilteredRowsOfTrimmedTerm ==
  /\ InDataOrder(getFilteredRows)
  /\ RowSet(getFilteredRows) =
       {row \in RowSet(data) :
          /\ Len(trim(globalFilter)) > 0 => ContainsTerm(row, trim(globalFilter))
          /\ MatchesColumnFilters(row)}
  /\ TwoFiltersIntersect

C6_Witness ==
  /\ Len(columnFilters) = 2
  /\ \E i \in 1..2 : ~HasColumn(columns, columnFilters[i].id)
  /\ globalFilter = <<" ", "A">>
  /\ Len(getFilteredRows) > 0
  /\ Len(getFilteredRows) < Len(globalFilterData(data, globalFilter, columns))
  /\ Len(globalFilterData(data, globalFilter, columns)) < Len(data)

(***************************************************************************)
(* Pagination: data sets of every length, a view that the global filter    *)
(* and the sort spec change, and the pagination setters in any order.      *)
(***************************************************************************)
InitPage ==
  \E n \in 0..MaxRows :
    Construct(PlainData(n), <<>>, <<>>, <<>>, [pageIndex |-> 0, pageSize |-> 2],
              EmptyMap, TRUE, TRUE, TRUE, FALSE, TRUE, TRUE)

NextPageOps ==
  \/ \E index \in -1..MaxRows : SetPageIndex(index)
  \/ \E size \in 1..MaxPageSize : SetPageSize(size)
  \/ NextPage
  \/ PreviousPage
  \/ FirstPage
  \/ LastPage
  \/ \E term \in {<<>>, <<"a">>} : SetGlobalFilter(term)
  \/ SetColumnFilterWithOperator(Filter("age", "isNotEmpty", Null))
  \/ ClearFilters
  \/ ToggleSort("age", FALSE)

SpecPage == InitPage /\ [][NextPageOps]_vars

\* The least number of pages of `size` rows that hold `total` rows
PageCountOf(total, size) ==
  CHOOSE k \in 0..total :
    /\ k * size >= total
    /\ \A j \in 0..(k - 1) : j * size < total

ViewPageCount == PageCountOf(Len(getSortedRows), pagination.pageSize)

\* C7 as claimed: after setPageIndex(i) pageIndex is i clamped into
\* [0, pageCount - 1], pageCount taken over the filtered and sorted rows.
C7_PageIndexClamped ==
  (last.call.op = "setPageIndex" /\ ViewPageCount >= 1) =>
    pagination.pageIndex = Max(0, Min(ViewPageCount - 1, last.call.idx))

\* C7 as amended: after setPageIndex(i) pageIndex is i when
\* 0 <= i < pageCount and is what it was before the call otherwise; the
\* page size is unchanged.
C7_PageIndexSetOrKept ==
  last.call.op = "setPageIndex" =>
    /\ pagination.pageSize = last.pre.pagination.pageSize
    /\ pagination.pageIndex =
         IF last.call.idx >= 0 /\ last.call.idx < ViewPageCount
         THEN last.call.idx
         ELSE last.pre.pagination.pageIndex

C7_Witness ==
  /\ last.call.op = "setPageIndex"
  /\ last.call.idx >= ViewPageCount
  /\ ViewPageCount >= 2
  /\ pagination.pageIndex = 0
  /\ last.pre.pagination.pageIndex = 0
  /\ Len(getSortedRows) < Len(data)

RECURSIVE ConcatPages(_, _, _)
ConcatPages(rows, size, count) ==
  IF count = 0 THEN <<>>
  ELSE ConcatPages(rows, size, count - 1)
         \o paginateData(rows, [pageIndex |-> count - 1, pageSize |-> size])

\* C8: page 0 of the filtered and sorted rows S holds min(pageSize, |S|)
\* rows, and pages 0 .. pageCount - 1 in order make up S exactly.
C8_PagesMakeUpView ==
  LET S == getSortedRows
      size == pagination.pageSize
  IN /\ Len(paginateData(S, [pageIndex |-> 0, pageSize |-> size])) = Min(size, Len(S))
     /\ ConcatPages(S, size, ViewPageCount) = S

C8_Witness ==
  /\ Len(getSortedRows) = 3
  /\ Len(data) = 4
  /\ Len(sorting) = 1
  /\ pagination.pageSize = 2
  /\ pagination.pageIndex = 1
  /\ Len(getPaginatedRows) = 1

\* C9: getPaginationInfo reports the number of filtered and sorted rows as
\* totalRows, ceil(totalRows / pageSize) as pageCount, pageIndex > 0 as
\* canPreviousPage and pageIndex < pageCount - 1 as canNextPage.
C9_PaginationInfo ==
  LET info == GridEngine_getPaginationInfo IN
    /\ info.totalRows = Len(getSortedRows)
    /\ info.totalRows = Cardinality({row \in RowSet(data) : row \in RowSet(getFilteredRows)})
    /\ info.pageCount = PageCountOf(info.totalRows, pagination.pageSize)
    /\ info.canPreviousPage = (pagination.pageIndex > 0)
    /\ info.canNextPage = (pagination.pageIndex < info.pageCount - 1)
    /\ (Len(getSortedRows) = 3 /\ pagination = [pageIndex |-> 0, pageSize |-> 2])
         => /\ info.pageCount = 2
            /\ info.totalRows = 3
            /\ info.canNextPage
            /\ ~info.canPreviousPage

C9_Witness ==
  /\ Len(columnFilters) > 0
  /\ Len(data) = 4
  /\ GridEngine_getPaginationInfo.totalRows = 3
  /\ GridEngine_getPaginationInfo.pageCount = 2
  /\ GridEngine_getPaginationInfo.canNextPage
  /\ ~GridEngine_getPaginationInfo.canPreviousPage

(***************************************************************************)
(* Selection: the selection methods in any order, in single-select and in  *)
(* multi-select mode.                                                      *)
(***************************************************************************)
\* The default getRowId: String(index)
RowIds == {NatToString(i) : i \in 0..(MaxRows - 1)}

SelectionInputs ==
  {EmptyMap,
   [id \in {NatToString(0), NatToString(1)} |-> TRUE],
   [id \in {NatToString(0)} |-> FALSE]}

InitSel ==
  Construct(PlainData(MaxRows), <<>>, <<>>, <<>>, DefaultPagination, EmptyMap,
            TRUE, TRUE, FALSE, TRUE, TRUE, TRUE)

NextSel ==
  \/ \E rowId \in RowIds : ToggleRowSelection(rowId)
  \/ \E sel \in SelectionInputs : SetRowSelection(sel)
  \/ ClearSelection
  \/ \E selOn, multiOn \in {"true", "false", "unset"} :
       SetOptions("unset", "unset", "unset", selOn, multiOn)

SpecSel == InitSel /\ [][NextSel]_vars

ToggledTwice ==
  last.call.op = "toggleRowSelection" /\ last.n = 2 /\ enableRowSelection

KnownRowIds == RowIds \cup DOMAIN rowSelection \cup DOMAIN last.pre0.rowSelection

\* C10 as claimed: two consecutive toggleRowSelection(id) leave every row
\* id with the status it had, in multi-select and in single-select mode.
C10_ToggleTwiceRestoresAll ==
  ToggledTwice =>
    \A id \in KnownRowIds :
      IsSelected(rowSelection, id) = IsSelected(last.pre0.rowSelection, id)

\* C10 as amended: two consecutive toggleRowSelection(id) leave id with the
\* status it had; in multi-select mode every other row id keeps its status
\* too, in single-select mode every other row id ends unselected.
C10_ToggleTwice ==
  ToggledTwice =>
    /\ IsSelected(rowSelection, last.call.row)
         = IsSelected(last.pre0.rowSelection, last.call.row)
    /\ \A id \in KnownRowIds \ {last.call.row} :
         IF enableMultiRowSelection
         THEN IsSelected(rowSelection, id) = IsSelected(last.pre0.rowSelection, id)
         ELSE ~IsSelected(rowSelection, id)

C10_Witness ==
  /\ ToggledTwice
  /\ ~enableMultiRowSelection
  /\ IsSelected(rowSelection, last.call.row)
  /\ \E id \in KnownRowIds \ {last.call.row} :
       IsSelected(last.pre0.rowSelection, id) /\ ~IsSelected(rowSelection, id)

SelectedIds == {id \in KnownRowIds : IsSelected(rowSelection, id)}

ToggledInSingleMode ==
  /\ last.call.op = "toggleRowSelection"
  /\ enableRowSelection
  /\ ~enableMultiRowSelection

\* C11: in single-select mode, after toggleRowSelection(A) directly followed
\* by toggleRowSelection(B) with A # B, B is selected and no other row id
\* is; after any toggleRowSelection in this mode at most one id is selected.
C11_SingleSelectExclusive ==
  ToggledInSingleMode =>
    /\ Cardinality(SelectedIds) <= 1
    /\ (last.prior.op = "toggleRowSelection" /\ last.prior.row # last.call.row)
         => SelectedIds = {last.call.row}

\* B is toggled directly after A, which was selected by its toggle
C11_Witness ==
  /\ ToggledInSingleMode
  /\ last.prior.op = "toggleRowSelection"
  /\ last.prior.row # last.call.row
  /\ IsSelected(last.pre.rowSelection, last.prior.row)
  /\ SelectedIds = {last.call.row}

(***************************************************************************)
(* Selection over a view: rows are selected one by one and all at once     *)
(* while the global filter and the sort spec change which rows the view    *)
(* holds and where.  getRowId is the default or returns the row's key.     *)
(***************************************************************************)
ViewTerms == {<<>>, <<"a">>, <<"f">>}

\* The row ids toggled one by one
ToggledIds == {NatToString(1), NatToString(MaxRows - 1)}

InitSelView ==
  \E rowId \in {"index", "key"} :
    ConstructWith(PlainData(MaxRows), <<>>, <<>>, <<>>, DefaultPagination,
                  EmptyMap, TRUE, TRUE, FALSE, TRUE, TRUE, rowId, TRUE)

NextSelView ==
  \/ \E rowId \in ToggledIds : ToggleRowSelection(rowId)
  \/ ToggleAllRowsSelection
  \/ ClearSelection
  \/ \E term \in ViewTerms : SetGlobalFilter(term)
  \/ ToggleSort("age", FALSE)
  \/ \E selOn, multiOn \in {"true", "false"} :
       SetOptions("unset", "unset", "unset", selOn, multiOn)

SpecSelView == InitSelView /\ [][NextSelView]_vars

ViewIds ==
  LET ids == ViewRowIds(getSortedRows) IN {ids[i] : i \in 1..Len(ids)}

\* The ids of the rows of data that the view does not hold, as getRowById
\* numbers them, that no row of the view bears
HiddenRowIds ==
  {RowIdOf(data[i], i - 1) :
     i \in {j \in 1..Len(data) : data[j] \notin RowSet(getSortedRows)}} \ ViewIds

ToggledAll == last.call.op = "toggleAllRowsSelection"

\* C12: toggleAllRowsSelection() leaves the selection status of every row
\* outside the filtered view as it was, whether it selects all or clears.
C12_HiddenRowsKeepSelection ==
  ToggledAll =>
    \A id \in HiddenRowIds :
      IsSelected(rowSelection, id) = IsSelected(last.pre.rowSelection, id)

\* C13: in multi-select mode toggleAllRowsSelection() selects every row of
\* the view when not all of them were selected (and getIsAllRowsSelected()
\* is then true for a non-empty view), and leaves no row of the view
\* selected when all of them were.
C13_ToggleAllSelectsOrClears ==
  (ToggledAll /\ enableRowSelection /\ enableMultiRowSelection) =>
    IF EveryRowSelected(last.pre.rowSelection, ViewRowIds(getSortedRows))
    THEN \A id \in ViewIds : ~IsSelected(rowSelection, id)
    ELSE /\ \A id \in ViewIds : IsSelected(rowSelection, id)
         /\ Len(getSortedRows) > 0 => getIsAllRowsSelected

\* toggleAllRowsSelection() twice over a filtered view: the first call
\* selected the rows of the view, the second one cleared them
C13_Witness ==
  /\ ToggledAll /\ enableRowSelection /\ enableMultiRowSelection
  /\ last.n = 2
  /\ Len(getSortedRows) > 0 /\ Len(getSortedRows) < Len(data)
  /\ ~EveryRowSelected(last.pre0.rowSelection, ViewRowIds(getSortedRows))
  /\ EveryRowSelected(last.pre.rowSelection, ViewRowIds(getSortedRows))
  /\ \A id \in ViewIds : ~IsSelected(rowSelection, id)

\* C14: getIsAllRowsSelected() is true iff the view is non-empty and every
\* row of it is selected; getIsSomeRowsSelected() is true iff at least one
\* but not all rows of the view are selected, whatever hidden rows are
\* selected.
C14_AllAndSomeOfView ==
  /\ getIsAllRowsSelected
       = (ViewIds # {} /\ \A id \in ViewIds : IsSelected(rowSelection, id))
  /\ getIsSomeRowsSelected
       = /\ \E id \in ViewIds : IsSelected(rowSelection, id)
         /\ \E id \in ViewIds : ~IsSelected(rowSelection, id)

(***************************************************************************)
(* Column sizing: setColumnSize and resetColumnSize in any order, on the   *)
(* columns and on an id that no column has.                                *)
(***************************************************************************)
Sizes == {-1, 0, 49, 50, 51, 79, 80, 99, 100, 120, 200, 201, 500, 501}

InitSize ==
  Construct(PlainData(1), <<>>, <<>>, <<>>, DefaultPagination, EmptyMap,
            TRUE, TRUE, FALSE, FALSE, TRUE, TRUE)

NextSize ==
  \/ \E columnId \in AnyColumnIds, size \in Sizes : SetColumnSize(columnId, size)
  \/ \E columnId \in AnyColumnIds : ResetColumnSize(columnId)

SpecSize == InitSize /\ [][NextSize]_vars

SizedColumn == last.call.op = "setColumnSize" /\ HasColumn(columns, last.call.col)

\* C15: setColumnSize(id, px) on an existing column with min = minWidth ?? 50
\* and max = maxWidth ?? 500, min <= max, stores px when min <= px <= max,
\* min when px < min and max when px > max; the stored width is in [min, max].
C15_SizeClamped ==
  SizedColumn =>
    LET column == FindColumn(columns, last.call.col)
        min == NumberOr(column.minWidth, 50)
        max == NumberOr(column.maxWidth, 500)
        px == last.call.idx
        stored == columnSizing[last.call.col]
    IN min <= max =>
         /\ last.call.col \in DOMAIN columnSizing
         /\ stored = (IF px < min THEN min ELSE IF px > max THEN max ELSE px)
         /\ min <= stored /\ stored <= max

\* A size above the declared maxWidth of a column is stored as that maxWidth
C15_Witness ==
  /\ SizedColumn
  /\ ~IsNullish(FindColumn(columns, last.call.col).maxWidth)
  /\ last.call.idx > FindColumn(columns, last.call.col).maxWidth.n
  /\ columnSizing[last.call.col] = FindColumn(columns, last.call.col).maxWidth.n

(***************************************************************************)
(* Calls that name a column: the methods that take a column id, called     *)
(* with the id of a column and with an id that no column has.              *)
(***************************************************************************)
NamedColumnIds == {"name", "ghost"}

InitColumnOps ==
  Construct(PlainData(1), <<>>, <<>>, <<>>, DefaultPagination, EmptyMap,
            TRUE, TRUE, FALSE, FALSE, TRUE, TRUE)

NextColumnOps ==
  \/ \E columnId \in NamedColumnIds : ToggleSort(columnId, FALSE)
  \/ \E columnId \in NamedColumnIds, value \in {Null, Str(<<"a">>)} :
       SetColumnFilter(columnId, value)
  \/ \E columnId \in NamedColumnIds :
       SetColumnFilterWithOperator(Filter(columnId, "equals", Str(<<"b">>)))
  \/ \E columnId \in NamedColumnIds, size \in {0, 100} : SetColumnSize(columnId, size)
  \/ \E columnId \in NamedColumnIds : ResetColumnSize(columnId)
  \/ \E columnId \in NamedColumnIds, value \in {Str(<<"a">>), Str(<<"b">>)} :
       SetCellValue(NatToString(0), columnId, value)

SpecColumnOps == InitColumnOps /\ [][NextColumnOps]_vars

ColumnOps ==
  {"toggleSort", "setColumnFilter", "setColumnFilterWithOperator",
   "setColumnSize", "resetColumnSize", "setCellValue"}

\* C16: toggleSort, setColumnFilter, setColumnFilterWithOperator,
\* setColumnSize, resetColumnSize and setCellValue called with a column id
\* that no column has leave sorting, the column filters, the column sizing
\* and data as they were.
C16_UnknownColumnIsNoOp ==
  [][(last'.call.op \in ColumnOps /\ ~HasColumn(columns, last'.call.col))
       => UNCHANGED <<sorting, columnFilters, columnSizing, data>>]_vars

(***************************************************************************)
(* Calls that name a row: the methods that take a row id, called with the  *)
(* ids of rows and with ids that no row has, while rows come and go.       *)
(***************************************************************************)
\* "9" is the id of no row
NamedRowIds == {NatToString(1), NatToString(9)}

InitRowOps ==
  \E rowId \in {"index", "key"} :
    ConstructWith(PlainData(2), <<>>, <<>>, <<>>, DefaultPagination, EmptyMap,
                  TRUE, TRUE, FALSE, TRUE, TRUE, rowId, TRUE)

NextRowOps ==
  \/ \E rowId \in NamedRowIds : ToggleRowSelection(rowId)
  \/ \E rowId \in NamedRowIds : UpdateRow(rowId, [name |-> Str(<<"b">>)])
  \/ \E rowId \in NamedRowIds : SetCellValue(rowId, "age", Num(1))
  \/ \E rowId \in NamedRowIds : RemoveRow(rowId)
  \/ AddRow(RowAt(MaxRows, 1))
  \/ \E multiOn \in {"true", "false"} :
       SetOptions("unset", "unset", "unset", "true", multiOn)

SpecRowOps == InitRowOps /\ [][NextRowOps]_vars

RowOps == {"toggleRowSelection", "updateRow", "setCellValue", "removeRow"}

DataIds == {DataRowIds(data)[i] : i \in 1..Len(data)}

\* C17: toggleRowSelection, updateRow, setCellValue and removeRow called with
\* a row id that matches no row leave the selection mapping and the rows
\* (which, in which order, how many) as they were.
C17_UnknownRowIsNoOp ==
  [][(last'.call.op \in RowOps /\ last'.call.row \notin DataIds)
       => UNCHANGED <<rowSelection, data>>]_vars

(***************************************************************************)
(* The AI pipeline.  A reply is a sequence of tokens: the punctuation of   *)
(* JSON, literals (strings, numbers, true, false, null) and words of prose.*)
(* Only the tokens "{" and "}" hold a brace character.  Parsed JSON values *)
(* are the values above, with booleans and objects added; the strings the  *)
(* pipeline never looks into are written as one unit.                      *)
(***************************************************************************)
Bool(b) == [t |-> "bool", s |-> <<>>, n |-> IF b THEN 1 ELSE 0, a |-> <<>>]
Word(w) == Str(<<w>>)

\* An object is the sequence of its entries, each a key with its value
Entry(key, value) == [t |-> "entry", s |-> key, n |-> 0, a |-> <<value>>]
Obj(entries) == [t |-> "obj", s |-> <<>>, n |-> 0, a |-> entries]

\* object[key]: the last entry of that key, undefined without one
Get(object, key) ==
  LET at == {i \in 1..Len(object.a) : object.a[i].s = key.s}
  IN IF at = {} THEN Undef
     ELSE object.a[CHOOSE i \in at : \A j \in at : j <= i].a[1]

Tok(k, v) == [k |-> k, v |-> v]
Punct(k) == Tok(k, Null)
Lit(v) == Tok("lit", v)
Prose == Tok("word", Null)

\* The JSON text of a value
RECURSIVE Stringify(_)
Stringify(v) ==
  LET RECURSIVE Joined(_, _)
      Joined(parts, i) ==
        IF i > Len(parts) THEN <<>>
        ELSE (IF i > 1 THEN <<Punct(",")>> ELSE <<>>) \o parts[i] \o Joined(parts, i + 1)
  IN CASE v.t = "obj" ->
            <<Punct("{")>>
              \o Joined([i \in 1..Len(v.a) |->
                           <<Lit(Str(v.a[i].s)), Punct(":")>> \o Stringify(v.a[i].a[1])], 1)
              \o <<Punct("}")>>
       [] v.t = "arr" ->
            <<Punct("[")>>
              \o Joined([i \in 1..Len(v.a) |-> Stringify(v.a[i])], 1)
              \o <<Punct("]")>>
       [] OTHER -> <<Lit(v)>>

\* response.match(/\{[\s\S]*\}/): from the first "{" to the last "}" after
\* it, greedily; <<>> stands for null (a match is never empty)
MatchBraces(response) ==
  LET opens == {i \in 1..Len(response) : response[i].k = "{"}
      closes == {i \in 1..Len(response) : response[i].k = "}"}
  IN IF opens = {} THEN <<>>
     ELSE LET first == CHOOSE i \in opens : \A j \in opens : i <= j
              after == {i \in closes : i > first}
          IN IF after = {} THEN <<>>
             ELSE SubSeq(response, first, CHOOSE i \in after : \A j \in after : j <= i)

\* JSON.parse: what a value, the members of an object and the elements of
\* an array parse to, and the tokens left over
ParseFailed == [ok |-> FALSE, v |-> Null, rest |-> <<>>]
Parsed(v, rest) == [ok |-> TRUE, v |-> v, rest |-> rest]

RECURSIVE JsonValue(_)
RECURSIVE JsonMembers(_, _)
RECURSIVE JsonElements(_, _)
JsonValue(ts) ==
  IF ts = <<>> THEN ParseFailed
  ELSE CASE Head(ts).k = "lit" -> Parsed(Head(ts).v, Tail(ts))
         [] Head(ts).k = "{" ->
              IF Len(ts) >= 2 /\ ts[2].k = "}"
              THEN Parsed(Obj(<<>>), SubSeq(ts, 3, Len(ts)))
              ELSE JsonMembers(Tail(ts), <<>>)
         [] Head(ts).k = "[" ->
              IF Len(ts) >= 2 /\ ts[2].k = "]"
              THEN Parsed(Arr(<<>>), SubSeq(ts, 3, Len(ts)))
              ELSE JsonElements(Tail(ts), <<>>)
         [] OTHER -> ParseFailed

JsonMembers(ts, entries) ==
  IF Len(ts) < 3 \/ ts[1].k # "lit" \/ ts[2].k # ":" THEN ParseFailed
  ELSE IF ts[1].v.t # "str" THEN ParseFailed
  ELSE LET r == JsonValue(SubSeq(ts, 3, Len(ts)))
       IN IF ~r.ok \/ r.rest = <<>> THEN ParseFailed
          ELSE LET all == Append(entries, Entry(ts[1].v.s, r.v))
               IN IF Head(r.rest).k = "}" THEN Parsed(Obj(all), Tail(r.rest))
                  ELSE IF Head(r.rest).k = "," THEN JsonMembers(Tail(r.rest), all)
                  ELSE ParseFailed

JsonElements(ts, elements) ==
  LET r == JsonValue(ts)
  IN IF ~r.ok \/ r.rest = <<>> THEN ParseFailed
     ELSE LET all == Append(elements, r.v)
          IN IF Head(r.rest).k = "]" THEN Parsed(Arr(all), Tail(r.rest))
             ELSE IF Head(r.rest).k = "," THEN JsonElements(Tail(r.rest), all)
             ELSE ParseFailed

\* JSON.parse(text): the value, or a SyntaxError thrown
JsonParse(ts) ==
  LET r == JsonValue(ts)
  IN IF r.ok /\ r.rest = <<>> THEN [threw |-> FALSE, v |-> r.v]
     ELSE [threw |-> TRUE, v |-> Null]

(***************************************************************************)
(* AIOutputSchema.safeParse                                                *)
(***************************************************************************)
FilterOperators ==
  {Word(w) : w \in {"equals", "notEquals", "contains", "notContains",
                    "startsWith", "endsWith", "gt", "gte", "lt", "lte",
                    "between", "inList", "isEmpty", "isNotEmpty"}}

\* ColumnFilterSchema: value is z.unknown() and may be anything or missing
ColumnFilterSchema(v) ==
  /\ v.t = "obj"
  /\ Get(v, Word("id")).t = "str"
  /\ Get(v, Word("operator")) \in FilterOperators

SortConfigSchema(v) ==
  /\ v.t = "obj"
  /\ Get(v, Word("id")).t = "str"
  /\ Get(v, Word("desc")).t = "bool"

\* AIOutputSchema that only asks for the two arrays
AIOutputSchemaArraysOnly(v) ==
  /\ v.t = "obj"
  /\ Get(v, Word("filters")).t = "arr"
  /\ Get(v, Word("sorting")).t = "arr"

AIOutputSchema(v) ==
  /\ v.t = "obj"
  /\ Get(v, Word("filters")).t = "arr"
  /\ \A i \in 1..Len(Get(v, Word("filters")).a) :
       ColumnFilterSchema(Get(v, Word("filters")).a[i])
  /\ Get(v, Word("sorting")).t = "arr"
  /\ \A i \in 1..Len(Get(v, Word("sorting")).a) :
       SortConfigSchema(Get(v, Word("sorting")).a[i])
  /\ Get(v, Word("confidence")).t = "num"
  /\ Get(v, Word("confidence")).n >= 0
  /\ Get(v, Word("confidence")).n <= 1

(***************************************************************************)
(* parseAIResponse and BaseAIProvider.parseQuery.  A result holds error    *)
(* as a string or undefined and rawResponse as <<text>>, or <<>> without.  *)
(***************************************************************************)
AIQueryResult(filters, srt, query, confidence, err, rawResponse) ==
  [filters |-> filters, sorting |-> srt, query |-> query,
   confidence |-> confidence, error |-> err, rawResponse |-> rawResponse]

Returned(value) == [how |-> "returned", value |-> value]
Threw == [how |-> "threw", value |-> NoResult]

\* The message of the SyntaxError of JSON.parse
SyntaxErrorMessage == Word("Unexpected token")

\* What the try block of parseAIResponse returns, when JSON.parse did not throw
OutputResult(response, query, parsed) ==
  IF ~AIOutputSchema(parsed)
  THEN AIQueryResult(<<>>, <<>>, query, Num(0),
                     Str(<<"Validation failed: ", "issues">>), <<response>>)
  ELSE LET filters == Get(parsed, Word("filters")).a
           srt == Get(parsed, Word("sorting")).a
       IN AIQueryResult(
            [i \in 1..Len(filters) |->
               Filter(Get(filters[i], Word("id")), Get(filters[i], Word("operator")),
                      Get(filters[i], Word("value")))],
            [i \in 1..Len(srt) |->
               SortEntry(Get(srt[i], Word("id")), Get(srt[i], Word("desc")))],
            query, Get(parsed, Word("confidence")), Undef, <<response>>)

\* parseAIResponse without its catch block: the SyntaxError leaves it
parseAIResponseNoCatch(response, query) ==
  LET jsonMatch == MatchBraces(response)
  IN IF jsonMatch = <<>>
     THEN Returned(AIQueryResult(<<>>, <<>>, query, Num(0),
                                 Word("No JSON found in response"), <<response>>))
     ELSE IF JsonParse(jsonMatch).threw THEN Threw
     ELSE Returned(OutputResult(response, query, JsonParse(jsonMatch).v))

parseAIResponse(response, query) ==
  LET jsonMatch == MatchBraces(response)
  IN IF jsonMatch = <<>>
     THEN Returned(AIQueryResult(<<>>, <<>>, query, Num(0),
                                 Word("No JSON found in response"), <<response>>))
     ELSE IF JsonParse(jsonMatch).threw
     THEN Returned(AIQueryResult(<<>>, <<>>, query, Num(0), SyntaxErrorMessage,
                                 <<response>>))
     ELSE Returned(OutputResult(response, query, JsonParse(jsonMatch).v))

\* What callAPI ends with: the text it returns or the value it throws, an
\* Error with a message or something else
ApiReturns(text) == [how |-> "returned", text |-> text, isError |-> FALSE, message |-> Undef]
ApiThrows(isError, message) ==
  [how |-> "threw", text |-> <<>>, isError |-> isError, message |-> message]

\* What fetch and the reading of its response come to
Fetched(kind, message, status, text) ==
  [kind |-> kind, message |-> message, status |-> status, text |-> text]

\* callAPI of CustomProvider and of OllamaProvider.  fetch rejects (network
\* failure, timeout, abort), or answers with a status that is not ok, with
\* a body that is no JSON, or with a reply; the transformResponse a caller
\* gives CustomProvider may throw what it likes.
callAPI(provider, fetched) ==
  CASE fetched.kind = "rejects" -> ApiThrows(TRUE, fetched.message)
    [] fetched.kind = "status" ->
         ApiThrows(TRUE, Str(<<CASE provider = "custom" -> "Custom API error: "
                                 [] provider = "openai" -> "OpenAI API error: "
                                 [] provider = "anthropic" -> "Anthropic API error: "
                                 [] OTHER -> "Ollama API error: ",
                               fetched.status, " - ">> \o fetched.message.s))
    [] fetched.kind = "badBody" -> ApiThrows(TRUE, SyntaxErrorMessage)
    [] fetched.kind = "transformThrows" -> ApiThrows(FALSE, Undef)
    [] OTHER -> ApiReturns(fetched.text)

Resolved(value) == [how |-> "resolved", value |-> value]
Rejected == [how |-> "rejected", value |-> NoResult]

\* What the catch block of parseQuery returns
CaughtResult(query, isError, message) ==
  AIQueryResult(<<>>, <<>>, query, Num(0),
                IF isError THEN message ELSE Word("Unknown error"), <<>>)

\* parseQuery without its try and catch: what callAPI throws rejects it
parseQueryNoCatch(query, api) ==
  IF api.how = "threw" THEN Rejected
  ELSE Resolved(parseAIResponse(api.text, query).value)

parseQuery(query, api) ==
  IF api.how = "threw" THEN Resolved(CaughtResult(query, api.isError, api.message))
  ELSE IF parseAIResponse(api.text, query).how = "threw"
  THEN Resolved(CaughtResult(query, TRUE, SyntaxErrorMessage))
  ELSE Resolved(parseAIResponse(api.text, query).value)

ParseAIResponse(response, query) ==
  /\ request' = [fn |-> "parseAIResponse", query |-> query, text |-> response,
                 api |-> NoOutcome, provider |-> "", options |-> Undef,
                 signal |-> Undef]
  /\ settled' = parseAIResponse(response, query)
  /\ UNCHANGED <<gridVars, hookVars>>

\* The literals of the timeouts: BaseAIProvider's, the fallback of the
\* callAPI of OpenAIProvider, AnthropicProvider and CustomProvider, and the
\* fallback of the callAPI of OllamaProvider
BaseTimeout == 30000
CallTimeout == 30000
OllamaTimeout == 60000

\* new Provider(options): this.options = { timeout: 30000, ...options }
BaseAIProvider(options) ==
  Obj(<<Entry(<<"timeout">>, Num(BaseTimeout))>> \o options.a)

\* callAPI: signal: AbortSignal.timeout(this.options.timeout ?? 30000), and
\* ?? 60000 in OllamaProvider; the signal is the number of milliseconds
timeoutSignal(provider, options) ==
  LET timeout == Get(BaseAIProvider(options), Word("timeout"))
  IN IF IsNullish(timeout)
     THEN Num(IF provider = "ollama" THEN OllamaTimeout ELSE CallTimeout)
     ELSE timeout

\* parseQuery of a provider made with options
ParseQueryWith(provider, options, query, fetched) ==
  /\ request' = [fn |-> "parseQuery", query |-> query, text |-> fetched.text,
                 api |-> callAPI(provider, fetched), provider |-> provider,
                 options |-> options, signal |-> timeoutSignal(provider, options)]
  /\ settled' = parseQuery(query, callAPI(provider, fetched))
  /\ UNCHANGED <<gridVars, hookVars>>

\* parseQuery of a provider made without options that matter here
ParseQuery(provider, query, fetched) ==
  ParseQueryWith(provider, Obj(<<>>), query, fetched)

(***************************************************************************)
(* The replies of a provider: prose, then a body, then prose.  A body is   *)
(* the JSON text of an output, valid or not, or no JSON at all; prose is   *)
(* words and braces.                                                       *)
(***************************************************************************)
MaxProse == 2

Output(filters, srt, confidence) ==
  Obj(<<Entry(<<"filters">>, filters), Entry(<<"sorting">>, srt),
        Entry(<<"confidence">>, confidence)>>)

FilterOf(id, operator, value) ==
  Obj(<<Entry(<<"id">>, id), Entry(<<"operator">>, operator), Entry(<<"value">>, value)>>)

SortOf(id, desc) == Obj(<<Entry(<<"id">>, id), Entry(<<"desc">>, desc)>>)

ValidOutputs ==
  {Output(Arr(<<>>), Arr(<<>>), Num(1)),
   Output(Arr(<<FilterOf(Word("age"), Word("gt"), Num(1))>>),
          Arr(<<SortOf(Word("age"), Bool(TRUE))>>), Num(0))}

\* Outputs the schema refuses: confidence missing, above 1, below 0, an
\* operator outside the enumeration, filters that are no array, a sort
\* entry without desc, a filter without id
InvalidOutputs ==
  {Obj(<<Entry(<<"filters">>, Arr(<<>>)), Entry(<<"sorting">>, Arr(<<>>))>>),
   Output(Arr(<<>>), Arr(<<>>), Num(2)),
   Output(Arr(<<>>), Arr(<<>>), Num(-1)),
   Output(Arr(<<FilterOf(Word("age"), Word("like"), Num(1))>>), Arr(<<>>), Num(1)),
   Output(Num(1), Arr(<<>>), Num(1)),
   Output(Arr(<<>>), Arr(<<Obj(<<Entry(<<"id">>, Word("age"))>>)>>), Num(1)),
   Output(Arr(<<Obj(<<Entry(<<"operator">>, Word("gt"))>>)>>), Arr(<<>>), Num(1))}

\* Texts in braces that are no JSON
BrokenBodies ==
  {<<Punct("{"), Prose, Punct("}")>>,
   <<Punct("{"), Lit(Word("filters")), Punct(":"), Punct("["), Punct("}")>>,
   <<Punct("{"), Lit(Word("filters")), Punct(":"), Lit(Num(1)), Punct(","), Punct("}")>>}

Bodies ==
  {Stringify(v) : v \in ValidOutputs \cup InvalidOutputs} \cup BrokenBodies \cup {<<>>}

ProseTexts ==
  UNION {[1..n -> {Prose, Punct("{"), Punct("}")}] : n \in 0..MaxProse}

Replies ==
  {lead \o body \o trail : lead \in ProseTexts, body \in Bodies, trail \in ProseTexts}

Queries == {Word("old"), Word("new")}

(***************************************************************************)
(* parseAIResponse on every reply.  The function keeps nothing from one    *)
(* call to the next, so a behaviour makes one call.                        *)
(***************************************************************************)
InitParse ==
  Construct(<<>>, <<>>, <<>>, <<>>, DefaultPagination, EmptyMap,
            TRUE, TRUE, FALSE, FALSE, TRUE, FALSE)

NextParse ==
  /\ request = NoRequest
  /\ \E response \in Replies, query \in Queries : ParseAIResponse(response, query)

SpecParse == InitParse /\ [][NextParse]_vars

\* The text holds a "{" with a "}" somewhere after it
HasSpan(text) ==
  \E i, j \in 1..Len(text) : i < j /\ text[i].k = "{" /\ text[j].k = "}"

ZeroResult(value, text) ==
  /\ value.filters = <<>>
  /\ value.sorting = <<>>
  /\ value.confidence = Num(0)
  /\ value.error.t = "str"
  /\ Len(value.error.s) > 0
  /\ value.rawResponse = <<text>>

\* C19: parseAIResponse never throws; when the text holds no '{...}' span,
\* when JSON.parse fails on the span and when the schema refuses what was
\* parsed (confidence missing or outside [0,1], an operator outside the
\* enumeration, filters or sorting of the wrong shape) it returns no
\* filters, no sorting, confidence 0, a non-empty error and the text as
\* rawResponse; without a span the error is 'No JSON found in response'.
C19_FailuresGiveZeroConfidence ==
  request.fn = "parseAIResponse" =>
    /\ settled.how = "returned"
    /\ ~HasSpan(request.text) =>
         /\ ZeroResult(settled.value, request.text)
         /\ settled.value.error = Word("No JSON found in response")
    /\ (HasSpan(request.text) /\ JsonParse(MatchBraces(request.text)).threw)
         => ZeroResult(settled.value, request.text)
    /\ (HasSpan(request.text) /\ ~JsonParse(MatchBraces(request.text)).threw
          /\ ~AIOutputSchema(JsonParse(MatchBraces(request.text)).v))
         => ZeroResult(settled.value, request.text)
    /\ \A v \in InvalidOutputs :
         request.text = Stringify(v) => ZeroResult(settled.value, request.text)

\* The reply is an output with an operator outside the enumeration, in prose
C19_Witness ==
  /\ request.fn = "parseAIResponse"
  /\ request.text
       = <<Prose>> \o Stringify(Output(Arr(<<FilterOf(Word("age"), Word("like"), Num(1))>>),
                                       Arr(<<>>), Num(1))) \o <<Prose>>
  /\ settled.how = "returned"
  /\ settled.value.confidence = Num(0)
  /\ settled.value.error = Str(<<"Validation failed: ", "issues">>)

\* C20: for a reply made of prose, then one valid output, then prose,
\* parseAIResponse returns the filters, the sorting and the confidence of
\* that output with error undefined, whatever the prose holds.
C20_ProseTolerated ==
  request.fn = "parseAIResponse" =>
    \A lead \in ProseTexts, trail \in ProseTexts, v \in ValidOutputs :
      request.text = lead \o Stringify(v) \o trail =>
        /\ settled.how = "returned"
        /\ settled.value = OutputResult(request.text, request.query, v)
        /\ settled.value.error = Undef

(***************************************************************************)
(* parseQuery of the providers, on everything fetch can come to.  A call   *)
(* keeps nothing for the next one, so a behaviour makes one call.          *)
(***************************************************************************)
Providers == {"custom", "ollama"}

\* Network failure, timeout and abort reject fetch with an Error
FetchErrors ==
  {Word("fetch failed"), Word("The operation was aborted due to timeout"),
   Word("This operation was aborted")}

FetchOutcomes(provider) ==
  {Fetched("rejects", message, "", <<>>) : message \in FetchErrors}
    \cup {Fetched("status", body, status, <<>>) :
            body \in {Str(<<>>), Word("overloaded")}, status \in {"404", "500"}}
    \cup {Fetched("badBody", Undef, "200", <<>>)}
    \cup (IF provider = "custom"
          THEN {Fetched("transformThrows", Undef, "200", <<>>)} ELSE {})
    \cup {Fetched("reply", Undef, "200", text) : text \in Replies}

InitProvider ==
  Construct(<<>>, <<>>, <<>>, <<>>, DefaultPagination, EmptyMap,
            TRUE, TRUE, FALSE, FALSE, TRUE, FALSE)

NextProvider ==
  /\ request = NoRequest
  /\ \E provider \in Providers, query \in Queries :
       \E fetched \in FetchOutcomes(provider) : ParseQuery(provider, query, fetched)

SpecProvider == InitProvider /\ [][NextProvider]_vars

\* C18: parseQuery always resolves and never rejects; when callAPI throws
\* (network failure, timeout, abort, a status that is not ok) the result
\* has no filters, no sorting, confidence 0 and the message of what was
\* thrown as error; when callAPI returns text the result is
\* parseAIResponse(text, query).
C18_ParseQueryResolves ==
  request.fn = "parseQuery" =>
    /\ settled.how = "resolved"
    /\ (request.api.how = "threw" /\ request.api.isError) =>
         /\ settled.value.filters = <<>>
         /\ settled.value.sorting = <<>>
         /\ settled.value.confidence = Num(0)
         /\ settled.value.error = request.api.message
    /\ request.api.how = "returned" =>
         settled.value = parseAIResponse(request.api.text, request.query).value

\* The endpoint answered 500 and parseQuery resolved with that as error
C18_Witness ==
  /\ request.fn = "parseQuery"
  /\ request.api.how = "threw"
  /\ request.api.message = Str(<<"Custom API error: ", "500", " - ", "overloaded">>)
  /\ settled.how = "resolved"
  /\ settled.value.confidence = Num(0)
  /\ settled.value.error = request.api.message

(***************************************************************************)
(* The set of column filters, under SpecFilter.                            *)
(***************************************************************************)
NoDuplicateIds(entries) ==
  \A i, j \in 1..Len(entries) : entries[i].id = entries[j].id => i = j

\* The step is a call that writes a filter of a column that has one
FilterOverwritten ==
  /\ \/ last'.call.op = "setColumnFilterWithOperator"
     \/ last'.call.op = "setColumnFilter" /\ ~RemovesFilter(last'.call.val)
  /\ HasFilter(columnFilters, last'.call.col)

\* C23: from a constructor with no two filters of one column, after any
\* setColumnFilter, setColumnFilterWithOperator, removeColumnFilter and
\* clearFilters the column filters hold at most one filter per column id;
\* a write to a column that has a filter leaves as many filters as before,
\* the column's filter at its old position with the written value, and
\* every other filter as it was.
C23_OneFilterPerColumn ==
  [][/\ NoDuplicateIds(columnFilters')
     /\ FilterOverwritten =>
          /\ Len(columnFilters') = Len(columnFilters)
          /\ \A i \in 1..Len(columnFilters) :
                IF columnFilters[i].id = last'.call.col
                THEN /\ columnFilters'[i].id = last'.call.col
                     /\ columnFilters'[i].value = last'.call.val
                ELSE columnFilters'[i] = columnFilters[i]]_vars

\* Two filters are set and the last call overwrote the first of them with
\* another value
C23_Witness ==
  /\ last.call.op = "setColumnFilter"
  /\ Len(last.pre.columnFilters) = 2
  /\ last.pre.columnFilters[1].id = last.call.col
  /\ last.pre.columnFilters[1].value # last.call.val
  /\ Len(columnFilters) = 2
  /\ columnFilters[1].id = last.call.col
  /\ columnFilters[1].value = last.call.val
  /\ columnFilters[2] = last.pre.columnFilters[2]

\* C24: after the constructor and any setSorting, toggleSort and
\* clearSorting, each column id appears at most once in the sort spec.
C24_SortIdsUnique == NoDuplicateIds(sorting)

\* C25: whenever the engine is in single-select mode, at most one row id
\* maps to selected, however the state was reached (setRowSelection,
\* setOptions switching from multi-select with several rows selected).
C25_SingleSelectAtMostOne ==
  ~enableMultiRowSelection => Cardinality(SelectedIds) <= 1

(***************************************************************************)
(* Column widths for columns declared in other ways: a width below the     *)
(* default minimum, a minWidth above the default width, a width above the  *)
(* column's maxWidth.                                                      *)
(***************************************************************************)
NarrowColumns ==
  << Sized(Column("name", "name", "string", TRUE, TRUE), Num(40), Undef, Undef),
     Sized(Column("age", "age", "number", TRUE, TRUE), Undef, Num(200), Undef),
     Sized(Column("tag", "tag", "string", FALSE, FALSE), Num(300), Undef, Num(250)) >>

InitWidth ==
  \E cols \in {Columns, NarrowColumns} :
    ConstructOf(cols, PlainData(1), <<>>, <<>>, <<>>, DefaultPagination, EmptyMap,
                TRUE, TRUE, FALSE, FALSE, TRUE, "index", TRUE)

SpecWidth == InitWidth /\ [][NextSize]_vars

\* C26: every stored column width lies within [minWidth ?? 50,
\* maxWidth ?? 500] of its column, whether the constructor, setColumnSize
\* or resetColumnSize stored it.
C26_WidthsWithinBounds ==
  \A id \in DOMAIN columnSizing :
    HasColumn(columns, id) =>
      /\ NumberOr(FindColumn(columns, id).minWidth, 50) <= columnSizing[id]
      /\ columnSizing[id] <= NumberOr(FindColumn(columns, id).maxWidth, 500)

(***************************************************************************)
(* The sorted view of a filtered data set: any data set, any sort spec     *)
(* (one of them with an entry of an id no column has), with and without a  *)
(* search term and a column filter.                                        *)
(***************************************************************************)
ViewSorts ==
  {<<SortEntry("age", FALSE)>>,
   <<SortEntry("name", TRUE)>>,
   <<SortEntry("age", TRUE), SortEntry("name", FALSE)>>,
   <<SortEntry("name", FALSE), SortEntry("age", TRUE)>>,
   <<SortEntry("ghost", FALSE), SortEntry("age", TRUE)>>}

NextSortedView ==
  \/ \E srt \in ViewSorts : SetSorting(srt)
  \/ \E columnId \in SortableIds, multi \in BOOLEAN : ToggleSort(columnId, multi)
  \/ ClearSorting
  \/ \E term \in {<<>>, <<"a">>} : SetGlobalFilter(term)
  \/ SetColumnFilterWithOperator(Filter("age", "gte", Num(1)))
  \/ ClearFilters

SpecSortedView == InitSortView /\ [][NextSortedView]_vars

\* What one entry of the sort spec makes of two rows: 0 for an id no
\* column has, otherwise the comparison of the two values, negated when
\* the entry is descending
EntryOrder(rowA, rowB, entry) ==
  IF ~HasColumn(columns, entry.id) THEN 0
  ELSE LET column == FindColumn(columns, entry.id)
           c == compareValues(getRowValue(rowA, column), getRowValue(rowB, column),
                              column.dataType)
       IN IF c.nan THEN 0 ELSE IF entry.desc THEN -c.v ELSE c.v

\* The first entry of the sort spec on which the two rows compare unequal
LexOrder(rowA, rowB) ==
  LET deciding == {i \in 1..Len(sorting) : EntryOrder(rowA, rowB, sorting[i]) # 0}
  IN IF deciding = {} THEN 0
     ELSE EntryOrder(rowA, rowB, sorting[CHOOSE i \in deciding : \A j \in deciding : i <= j])

\* The place of a row of the data set in a view (rows differ in their key)
PlaceIn(view, row) == CHOOSE i \in 1..Len(view) : view[i].k = row.k

\* C28: getSortedRows() holds each row of getFilteredRows() exactly once;
\* of two of its rows the earlier one is the smaller by the first sort
\* entry on which they compare unequal (negated for a descending entry,
\* entries of unknown columns skipped), and two rows that no entry tells
\* apart stand in their order in getFilteredRows().
C28_SortedIsStableLexicographic ==
  LET view == getSortedRows
      base == getFilteredRows
  IN /\ Len(view) = Len(base)
     /\ \A i \in 1..Len(base) : \E j \in 1..Len(view) : view[j] = base[i]
     /\ \A i, j \in 1..Len(view) :
          i < j =>
            /\ LexOrder(view[i], view[j]) <= 0
            /\ LexOrder(view[i], view[j]) = 0 =>
                 PlaceIn(base, view[i]) < PlaceIn(base, view[j])

\* A view under a column filter and a two-entry sort spec whose first
\* entry names no column: the sort moved a row, and two rows it could not
\* tell apart kept their order
C28_Witness ==
  /\ Len(sorting) = 2
  /\ ~HasColumn(columns, sorting[1].id)
  /\ Len(columnFilters) = 1
  /\ getSortedRows # getFilteredRows
  /\ \E i, j \in 1..Len(getSortedRows) :
       /\ i < j
       /\ LexOrder(getSortedRows[i], getSortedRows[j]) = 0

\* C29: nextPage() adds 1 to pageIndex when canNextPage holds and leaves
\* pagination as it is otherwise; previousPage() takes 1 from pageIndex
\* when canPreviousPage holds and leaves pagination as it is otherwise;
\* with a view that is not empty firstPage() sets pageIndex to 0 and
\* lastPage() sets it to pageCount - 1.
C29_PageNavigation ==
  [][LET info == GridEngine_getPaginationInfo
     IN /\ last'.call.op = "nextPage" =>
             pagination' = IF info.canNextPage
                           THEN [pagination EXCEPT !.pageIndex = @ + 1]
                           ELSE pagination
        /\ last'.call.op = "previousPage" =>
             pagination' = IF info.canPreviousPage
                           THEN [pagination EXCEPT !.pageIndex = @ - 1]
                           ELSE pagination
        /\ (last'.call.op = "firstPage" /\ info.totalRows > 0) =>
             pagination' = [pagination EXCEPT !.pageIndex = 0]
        /\ (last'.call.op = "lastPage" /\ info.totalRows > 0) =>
             pagination' = [pagination EXCEPT !.pageIndex = info.pageCount - 1]]_vars

(***************************************************************************)
(* The timeout a provider binds its request to, for each of the four       *)
(* providers and for options with and without a timeout.                   *)
(***************************************************************************)
AllProviders == {"openai", "anthropic", "custom", "ollama"}

ProviderOptionInputs ==
  {Obj(<<>>),
   Obj(<<Entry(<<"model">>, Word("llama3"))>>),
   Obj(<<Entry(<<"timeout">>, Num(5000))>>),
   Obj(<<Entry(<<"timeout">>, Num(90000)), Entry(<<"model">>, Word("llama3"))>>)}

NextTimeout ==
  /\ request = NoRequest
  /\ \E provider \in AllProviders, options \in ProviderOptionInputs, query \in Queries :
       \E fetched \in FetchOutcomes(provider) :
         ParseQueryWith(provider, options, query, fetched)

SpecTimeout == InitProvider /\ [][NextTimeout]_vars

\* C22: a provider made without a timeout option binds its request to a
\* signal of 30000 ms (OpenAI, Anthropic, custom) or of 60000 ms (Ollama);
\* a provider made with a timeout binds its request to that timeout.
C22_TimeoutDefaults ==
  request.fn = "parseQuery" =>
    LET given == Get(request.options, Word("timeout"))
    IN IF IsNullish(given)
       THEN request.signal = Num(IF request.provider = "ollama" THEN 60000 ELSE 30000)
       ELSE request.signal = given

(***************************************************************************)
(* The results of the pipeline: parseAIResponse on every reply and         *)
(* parseQuery on everything fetch can come to.                             *)
(***************************************************************************)
NextResult ==
  \/ NextParse
  \/ NextProvider

SpecResult == InitProvider /\ [][NextResult]_vars

\* C27: every result of parseAIResponse or parseQuery has a confidence
\* from 0 to 1; with error set its confidence is 0 and its filters and
\* sorting are empty; with error unset every filter has one of the 14
\* operators and every sorting entry a boolean desc.
C27_ResultWellFormed ==
  (request.fn # "none" /\ settled.how \in {"returned", "resolved"}) =>
    LET value == settled.value
    IN /\ value.confidence.t = "num"
       /\ 0 <= value.confidence.n /\ value.confidence.n <= 1
       /\ value.error # Undef =>
            /\ value.confidence = Num(0)
            /\ value.filters = <<>>
            /\ value.sorting = <<>>
       /\ value.error = Undef =>
            /\ \A i \in 1..Len(value.filters) :
                  value.filters[i].operator \in FilterOperators
            /\ \A i \in 1..Len(value.sorting) : value.sorting[i].desc.t = "bool"

\* parseQuery gave a result without error that holds a filter and a sort
C27_Witness ==
  /\ request.fn = "parseQuery"
  /\ settled.how = "resolved"
  /\ settled.value.error = Undef
  /\ Len(settled.value.filters) = 1
  /\ settled.value.filters[1].operator = Word("gt")
  /\ Len(settled.value.sorting) = 1
  /\ settled.value.sorting[1].desc = Bool(TRUE)

(***************************************************************************)
(* useAIQuery.  query(input) runs up to its await in one step and from the *)
(* await on in another, when the promise of provider.parseQuery settles.   *)
(* The provider is whatever the caller passes: its promise resolves with a *)
(* result or rejects with an Error or with another value.  setColumnFilter *)
(* and setSorting, when given, are those of useTailGrid, which call the    *)
(* engine.  A call keeps the options it was made with.                     *)
(***************************************************************************)
MaxQueries == 2

HookOptions(autoApplyFilters, autoApplySorting, setColumnFilterGiven, setSortingGiven) ==
  [autoApplyFilters |-> autoApplyFilters, autoApplySorting |-> autoApplySorting,
   setColumnFilter |-> setColumnFilterGiven, setSorting |-> setSortingGiven]

HookState == [loading |-> loading, error |-> error, result |-> result, history |-> history]

\* err instanceof Error ? err.message : 'AI query failed'
errorMessage(outcome) ==
  IF outcome.isError THEN outcome.message ELSE Word("AI query failed")

\* query from its await on, without the finally block
queryAfterAwaitNoFinally(state, input, outcome, clock) ==
  IF outcome.how = "resolved"
  THEN [state EXCEPT !.result = outcome.value,
                     !.history = Append(@, [query |-> input, result |-> outcome.value,
                                            timestamp |-> clock])]
  ELSE [state EXCEPT !.error = errorMessage(outcome)]

\* query from its await on, with a catch block that only rethrows
queryAfterAwaitNoCatch(state, input, outcome, clock) ==
  IF outcome.how = "resolved"
  THEN [state EXCEPT !.loading = FALSE, !.result = outcome.value,
                     !.history = Append(@, [query |-> input, result |-> outcome.value,
                                            timestamp |-> clock])]
  ELSE [state EXCEPT !.loading = FALSE]

\* query from its await on, keeping the result of an earlier query
queryAfterAwaitFirstWins(state, input, outcome, clock) ==
  IF outcome.how = "resolved"
  THEN [state EXCEPT !.loading = FALSE,
                     !.result = IF @ = NoResult THEN outcome.value ELSE @,
                     !.history = Append(@, [query |-> input, result |-> outcome.value,
                                            timestamp |-> clock])]
  ELSE [state EXCEPT !.loading = FALSE, !.error = errorMessage(outcome)]

\* query from its await on: setResult and setHistory, or the catch block's
\* setError, and setLoading(false) of the finally block
queryAfterAwait(state, input, outcome, clock) ==
  IF outcome.how = "resolved"
  THEN [state EXCEPT !.loading = FALSE, !.result = outcome.value,
                     !.history = Append(@, [query |-> input, result |-> outcome.value,
                                            timestamp |-> clock])]
  ELSE [state EXCEPT !.loading = FALSE, !.error = errorMessage(outcome)]

\* What query gives its caller: return queryResult, or throw err from the
\* catch block
queryReturns(outcome) ==
  IF outcome.how = "resolved"
  THEN HookOutcome("resolved", outcome.value, FALSE, Undef)
  ELSE HookOutcome("rejected", NoResult, outcome.isError, outcome.message)

\* queryResult.filters.forEach(filter => setColumnFilter(filter.id, filter.value))
RECURSIVE ApplyFilters(_, _)
ApplyFilters(filters, applied) ==
  IF applied = <<>> THEN filters
  ELSE ApplyFilters(setColumnFilter(filters, Head(applied).id, Head(applied).value),
                    Tail(applied))

\* query(input) up to its await.  An input that trims to nothing throws
\* before any state is set.
Query(input, options) ==
  /\ hook.clock + Cardinality(pending) < 2 * MaxQueries
  /\ IF trim(input.s) = <<>>
     THEN /\ hook' = HookEvent("threw", hook.clock, 0, input, NoHookOutcome,
                               HookOutcome("rejected", NoResult, TRUE,
                                           Word("Query cannot be empty")),
                               NotCalled, NotCalled)
          /\ UNCHANGED <<loading, error, pending>>
     ELSE /\ loading' = TRUE
          /\ error' = Null
          /\ pending' = pending \cup {[id |-> hook.clock + 1, input |-> input,
                                        options |-> options]}
          /\ hook' = HookEvent("query", hook.clock + 1, hook.clock + 1, input, NoHookOutcome,
                               HookOutcome("pending", NoResult, FALSE, Undef),
                               NotCalled, NotCalled)
  /\ UNCHANGED <<gridVars, request, settled, result, history>>

\* The promise of provider.parseQuery settles and query runs to its end
Settle(call, outcome) ==
  /\ call \in pending
  /\ pending' = pending \ {call}
  /\ LET after == queryAfterAwait(HookState, call.input, outcome, hook.clock + 1)
         applyFilters == /\ outcome.how = "resolved"
                         /\ call.options.autoApplyFilters
                         /\ call.options.setColumnFilter
         applySorting == /\ outcome.how = "resolved"
                         /\ call.options.autoApplySorting
                         /\ call.options.setSorting
     IN /\ loading' = after.loading
        /\ error' = after.error
        /\ result' = after.result
        /\ history' = after.history
        /\ columnFilters' = IF applyFilters
                            THEN ApplyFilters(columnFilters, outcome.value.filters)
                            ELSE columnFilters
        /\ sorting' = IF applySorting
                      THEN [i \in 1..Len(outcome.value.sorting) |->
                              SortEntry(outcome.value.sorting[i].id,
                                        outcome.value.sorting[i].desc)]
                      ELSE sorting
        /\ hook' = HookEvent("settled", hook.clock + 1, call.id, call.input,
                             outcome,
                             queryReturns(outcome),
                             IF outcome.how = "resolved"
                             THEN [called |-> TRUE, value |-> outcome.value,
                                   message |-> Undef]
                             ELSE NotCalled,
                             IF outcome.how = "rejected"
                             THEN [called |-> TRUE, value |-> NoResult,
                                   message |-> errorMessage(outcome)]
                             ELSE NotCalled)
  /\ held' = Reassigned(Reassigned(held, "columnFilters",
                                   /\ outcome.how = "resolved"
                                   /\ call.options.autoApplyFilters
                                   /\ call.options.setColumnFilter
                                   /\ Len(outcome.value.filters) > 0),
                        "sorting",
                        /\ outcome.how = "resolved"
                        /\ call.options.autoApplySorting
                        /\ call.options.setSorting)
  /\ last' = Note(Call("useAIQuery.query", "", FALSE, <<>>, Null, 0))
  /\ UNCHANGED <<dataVars, globalFilter, pageVars, selVars, sizeVars, flagVars,
                 tracing, request, settled>>

ClearError ==
  /\ error' = Null
  /\ hook' = [hook EXCEPT !.event = "clearError"]
  /\ UNCHANGED <<gridVars, request, settled, loading, result, history, pending>>

ClearResult ==
  /\ result' = NoResult
  /\ hook' = [hook EXCEPT !.event = "clearResult"]
  /\ UNCHANGED <<gridVars, request, settled, loading, error, history, pending>>

ClearHistory ==
  /\ history' = <<>>
  /\ hook' = [hook EXCEPT !.event = "clearHistory"]
  /\ UNCHANGED <<gridVars, request, settled, loading, error, result, pending>>

HookInputs == {Str(<<>>), Str(<<" ">>), Str(<<"a">>), Str(<<" ", "b">>)}

HookOptionSets ==
  {HookOptions(TRUE, TRUE, TRUE, TRUE), HookOptions(FALSE, TRUE, TRUE, TRUE),
   HookOptions(TRUE, FALSE, TRUE, TRUE), HookOptions(TRUE, TRUE, FALSE, FALSE)}

\* What the provider's promise settles with
HookResults(input) ==
  {AIQueryResult(<<Filter("name", "contains", Str(<<"a">>)),
                   Filter("age", "gte", Num(2))>>,
                 <<SortEntry("age", TRUE)>>, input, Num(1), Undef, <<>>),
   AIQueryResult(<<>>, <<SortEntry("name", FALSE)>>, input, Num(1), Undef, <<>>),
   AIQueryResult(<<>>, <<>>, input, Num(0), Word("No JSON found in response"), <<>>)}

Settlements(input) ==
  {HookOutcome("resolved", r, FALSE, Undef) : r \in HookResults(input)}
    \cup {HookOutcome("rejected", NoResult, TRUE, Word("API error")),
          HookOutcome("rejected", NoResult, FALSE, Undef)}

InitHook ==
  \E filters \in {<<>>, <<Filter("age", "gt", Num(1))>>} :
    Construct(PlainData(2), <<>>, filters, <<>>, DefaultPagination, EmptyMap,
              TRUE, TRUE, FALSE, FALSE, TRUE, FALSE)

NextHook ==
  \/ \E input \in HookInputs, options \in HookOptionSets : Query(input, options)
  \/ \E call \in pending : \E outcome \in Settlements(call.input) : Settle(call, outcome)
  \/ ClearError
  \/ ClearResult
  \/ ClearHistory

SpecHook == InitHook /\ [][NextHook]_vars

\* C21: a call of query with an input that does not trim to nothing sets
\* loading to true; when the provider's promise settles, resolved or
\* rejected, loading is set back to false; and loading is never true with
\* no query in flight.
C21_LoadingReturnsToIdle ==
  /\ hook.event = "query" => loading
  /\ hook.event = "settled" => ~loading
  /\ pending = {} => ~loading

\* A query was issued, its promise rejected, and loading is false again
C21_Witness ==
  /\ hook.event = "settled"
  /\ hook.promise.how = "rejected"
  /\ pending = {}
  /\ ~loading

\* The step is the settlement of a query whose promise rejected
QueryRejected ==
  /\ hook'.event = "settled"
  /\ hook'.clock # hook.clock
  /\ hook'.promise.how = "rejected"

\* C30: when the provider's promise rejects, query sets error to the
\* message of the Error it rejected with ('AI query failed' for a value
\* that is no Error), calls onError with the error, sets loading to false,
\* leaves result, history and the grid's filters and sorting as they were
\* and rejects to its caller with what the promise rejected with;
\* clearError() sets error to null.
C30_RejectionSetsError ==
  [][/\ QueryRejected =>
          /\ error' = IF hook'.promise.isError THEN hook'.promise.message
                      ELSE Word("AI query failed")
          /\ hook'.onError.called
          /\ hook'.onError.message = error'
          /\ ~hook'.onResult.called
          /\ loading' = FALSE
          /\ result' = result
          /\ history' = history
          /\ columnFilters' = columnFilters
          /\ sorting' = sorting
          /\ hook'.returned.how = "rejected"
          /\ hook'.returned.isError = hook'.promise.isError
          /\ hook'.returned.message = hook'.promise.message
     /\ hook'.event = "clearError" => error' = Null]_vars

\* After a query that gave a result, a second one was rejected with
\* 'API error': error holds the message and the result and history of the
\* first query are still there
C30_Witness ==
  /\ hook.event = "settled"
  /\ hook.promise.how = "rejected"
  /\ hook.promise.isError
  /\ error = Word("API error")
  /\ hook.onError.called
  /\ hook.returned.how = "rejected"
  /\ ~loading
  /\ result # NoResult
  /\ Len(history) = 1
  /\ Len(columnFilters) > 0

\* The step is the settlement of a query whose promise resolved
QueryResolved ==
  /\ hook'.event = "settled"
  /\ hook'.clock # hook.clock
  /\ hook'.promise.how = "resolved"

\* The call that the step settles
SettledCall == CHOOSE call \in pending : call \notin pending'

\* C31: every resolved query is applied when it settles, whatever else is
\* in flight and whenever it was issued: the hook's result becomes its
\* result, history gains one entry for it at the end, and a sort spec that
\* auto-apply sets is its sorting.  So after two overlapping queries the
\* result, the sort spec and the last history entry are those of the one
\* that settled last.
C31_LastSettledWins ==
  [][QueryResolved =>
       /\ result' = hook'.promise.value
       /\ history' = Append(history, [query |-> SettledCall.input,
                                      result |-> hook'.promise.value,
                                      timestamp |-> hook'.clock])
       /\ (SettledCall.options.autoApplySorting /\ SettledCall.options.setSorting)
            => sorting' = hook'.promise.value.sorting]_vars

\* Two queries were in flight together (issued at 1 and 2, settled at 3 and
\* 4) with different results, and the one issued first settled last:
\* result, sort spec and last history entry are its own
C31_Witness ==
  /\ hook.event = "settled"
  /\ hook.issued = 1
  /\ pending = {}
  /\ Len(history) = 2
  /\ history[1].timestamp = 3
  /\ history[2].timestamp = 4
  /\ history[1].query = Str(<<" ", "b">>)
  /\ history[2].query = Str(<<"a">>)
  /\ history[1].result.sorting # history[2].result.sorting
  /\ result = history[2].result
  /\ sorting = history[2].result.sorting
  /\ Len(sorting) = 1

\* C33: a query that settles with a failure result (error set, confidence
\* 0) leaves the grid's sort spec and column filters as they were before
\* the query settled, whatever the options of the hook.
C33_FailureLeavesGrid ==
  [][(QueryResolved /\ hook'.promise.value.error # Undef) =>
       /\ sorting' = sorting
       /\ columnFilters' = columnFilters]_vars

\* C34: when a result without error is auto-applied through
\* setColumnFilter, the engine holds for each filter of the result a filter
\* of that column with the result's operator and value.
C34_AppliedFilterKeepsOperator ==
  [][(/\ QueryResolved
      /\ hook'.promise.value.error = Undef
      /\ SettledCall.options.autoApplyFilters
      /\ SettledCall.options.setColumnFilter) =>
       \A i \in 1..Len(hook'.promise.value.filters) :
         \E j \in 1..Len(columnFilters') :
           columnFilters'[j] = hook'.promise.value.filters[i]]_vars

\* C35: loading is true exactly while a query is in flight.
C35_LoadingWhileInFlight == loading <=> pending # {}

\* C32: after any sequence of engine operations pageIndex lies within
\* [0, max(0, pageCount - 1)] of the filtered and sorted view, and with
\* pagination enabled getPaginatedRows() is not empty when the view is not.
C32_PageIndexWithinView ==
  /\ 0 <= pagination.pageIndex
  /\ pagination.pageIndex <= Max(0, GridEngine_getPaginationInfo.pageCount - 1)
  /\ (enablePagination /\ Len(getSortedRows) > 0) => Len(getPaginatedRows) > 0


(***************************************************************************)
(* Row identity: the ids the engine gives rows where it reads them, in the *)
(* page, in the view and in data, with the default getRowId, while the     *)
(* view is sorted, filtered and paged.                                     *)
(***************************************************************************)
\* getRowModel(): the rows of the page, each with getRowId(row, index) for
\* its position in the page and the selection entry of that id
getRowModel ==
  LET rows == getPaginatedRows
  IN [i \in 1..Len(rows) |->
        [original |-> rows[i],
         id |-> RowIdOf(rows[i], i - 1),
         isSelected |-> IsSelected(rowSelection, RowIdOf(rows[i], i - 1))]]

\* filter((row, index) => rowSelection[getRowId(row, index)]) over a view
SelectedOf(allRows, sel) ==
  LET ids == ViewRowIds(allRows)
      indexed == [i \in 1..Len(allRows) |-> <<allRows[i], ids[i]>>]
      Kept(entry) == IsSelected(sel, entry[2])
      kept == SelectSeq(indexed, Kept)
  IN [i \in 1..Len(kept) |-> kept[i][1]]

\* getSelectedRows(): the rows of the sorted view whose id, by position in
\* that view, is selected
getSelectedRows == SelectedOf(getSortedRows, rowSelection)

\* getRowById(rowId): the first row of data whose id, by position in data,
\* is rowId; no row is the empty sequence
getRowById(rowId) ==
  LET ids == DataRowIds(data)
      found == {i \in 1..Len(data) : ids[i] = rowId}
  IN IF found = {} THEN <<>>
     ELSE <<data[CHOOSE i \in found : \A j \in found : i <= j]>>

IdentityPagination == [pageIndex |-> 0, pageSize |-> 2]

InitIdentity ==
  Construct(PlainData(MaxRows), <<>>, <<>>, <<>>, IdentityPagination, EmptyMap,
            TRUE, TRUE, TRUE, TRUE, TRUE, FALSE)

NextIdentity ==
  \/ \E rowId \in ToggledIds : ToggleRowSelection(rowId)
  \/ ToggleAllRowsSelection
  \/ \E columnId \in SortableIds : ToggleSort(columnId, FALSE)
  \/ \E srt \in ViewSorts : SetSorting(srt)
  \/ \E term \in ViewTerms : SetGlobalFilter(term)
  \/ \E index \in 0..1 : SetPageIndex(index)

SpecIdentity == InitIdentity /\ [][NextIdentity]_vars

RowKeys(rows) == {rows[i].k : i \in 1..Len(rows)}

\* The id getRowModel exposes for a row is the id of that row in the view
\* and in data, and the row is shown selected when getSelectedRows has it
ModelIdsAgree ==
  \A i \in 1..Len(getRowModel) :
    LET shown == getRowModel[i]
    IN /\ getRowById(shown.id) = <<shown.original>>
       /\ \A j \in 1..Len(getSortedRows) :
            getSortedRows[j] = shown.original
              => ViewRowIds(getSortedRows)[j] = shown.id
       /\ shown.isSelected <=> shown.original.k \in RowKeys(getSelectedRows)

\* getSortedRows() and getSelectedRows() read after the step
SortedRowsAfter ==
  IF Len(sorting') > 0 THEN sortData(getFilteredRows', sorting', columns')
  ELSE getFilteredRows'

SelectedRowsAfter == SelectedOf(SortedRowsAfter, rowSelection')

\* A step that changes neither the selection nor the data leaves the rows
\* that stay in the view selected or not as they were
SelectionFollowsRows ==
  (rowSelection' = rowSelection /\ data' = data)
    => (RowKeys(SelectedRowsAfter) \cap RowKeys(getSortedRows)
          = RowKeys(getSelectedRows) \cap RowKeys(SortedRowsAfter))

\* C36: with the default getRowId a row has one id wherever it is read
\* (getRowModel, the selection methods, getRowById, on every page), and a
\* row selected through that id is the row getSelectedRows returns after
\* the sorting, the filter or the page changed.
C36_RowIdentityIndependentOfPosition ==
  []ModelIdsAgree /\ [][SelectionFollowsRows]_vars

\* A call of removeRow with the default getRowId, on rows that differ
RemovedByIndex ==
  /\ last'.call.op = "removeRow"
  /\ getRowId = "index"
  /\ Cardinality(RowKeys(data)) = Len(data)

\* C37: after removeRow(id) with the default getRowId, getSelectedRows()
\* reports no row that was unselected before, still reports every other row
\* that was selected before, and the removed row's id is no longer selected.
C37_RemoveRowKeepsSelection ==
  [][RemovedByIndex =>
       LET removed == RowKeys(data) \ RowKeys(data')
       IN /\ RowKeys(SelectedRowsAfter) \subseteq RowKeys(getSelectedRows)
          /\ (RowKeys(getSelectedRows) \ removed) \subseteq RowKeys(SelectedRowsAfter)
          /\ removed # {} => ~IsSelected(rowSelection', last'.call.row)]_vars

(***************************************************************************)
(* Feature flags: engines constructed with every combination of            *)
(* enableSorting, enableFiltering, enablePagination and enableRowSelection,*)
(* then sorted, filtered, paged and selected.                              *)
(***************************************************************************)
InitFlags ==
  \E sortOn, filterOn, pageOn, selOn \in BOOLEAN :
    Construct(PlainData(MaxSortRows), <<>>, <<>>, <<>>, IdentityPagination,
              EmptyMap, sortOn, filterOn, pageOn, selOn, TRUE, TRUE)

NextFlags ==
  \/ \E columnId \in SortableIds : ToggleSort(columnId, FALSE)
  \/ SetGlobalFilter(<<"a">>)
  \/ SetPageIndex(1)
  \/ ToggleRowSelection(NatToString(1))
  \/ ToggleAllRowsSelection

SpecFlags == InitFlags /\ [][NextFlags]_vars

\* What the views are when a feature is off
FlagsGateViews ==
  /\ ~enableSorting => getSortedRows = getFilteredRows
  /\ ~enableFiltering => getFilteredRows = data
  /\ ~enablePagination => getPaginatedRows = getSortedRows

\* What the toggles do when a feature is off
FlagsGateToggles ==
  /\ (~enableSorting /\ last'.call.op = "toggleSort") => sorting' = sorting
  /\ (~enableRowSelection
        /\ last'.call.op \in {"toggleRowSelection", "toggleAllRowsSelection"})
       => rowSelection' = rowSelection

\* C38: an engine-level feature flag that is false switches its feature off:
\* enableSorting false, toggleSort changes nothing and the sorted view is the
\* filtered view; enableFiltering false, the filtered view is the raw rows;
\* enableRowSelection false, the selection toggles change nothing;
\* enablePagination false, the page is the whole sorted view.
C38_FlagsGateFeatures ==
  []FlagsGateViews /\ [][FlagsGateToggles]_vars

(***************************************************************************)
(* Objects handed out: a caller keeps what a getter returned while the     *)
(* setters run.                                                            *)
(***************************************************************************)
HeldFields == {"sorting", "columnFilters", "rowSelection", "columnSizing", "data"}

\* this.state[field]
StateValue(field) ==
  CASE field = "sorting" -> sorting
    [] field = "columnFilters" -> columnFilters
    [] field = "rowSelection" -> rowSelection
    [] field = "columnSizing" -> columnSizing
    [] field = "data" -> data

\* getSorting(), getColumnFilters(), getRowSelection(), getColumnSizing(),
\* getAllRows(): the caller keeps the object returned
GetObject(field) ==
  /\ held' = HandedOut(field, StateValue(field))
  /\ UNCHANGED <<dataVars, sortVars, filterVars, pageVars, selVars, sizeVars,
                 flagVars, tracing, last, aiVars>>

HeldSizes == {60, 200}

InitHeld ==
  Construct(PlainData(2), <<>>, <<>>, <<>>, DefaultPagination, EmptyMap,
            TRUE, TRUE, FALSE, TRUE, TRUE, FALSE)

NextHeld ==
  \/ \E field \in HeldFields : GetObject(field)
  \/ \E columnId \in {"name", "nope"} : ToggleSort(columnId, FALSE)
  \/ \E value \in {Num(2), Null} : SetColumnFilter("age", value)
  \/ ToggleRowSelection(NatToString(1))
  \/ \E columnId \in {"age", "nope"}, size \in HeldSizes : SetColumnSize(columnId, size)
  \/ \E columnId \in {"age", "nope"} : ResetColumnSize(columnId)
  \/ UpdateRow(NatToString(1), [name |-> Str(<<"b">>)])
  \/ AddRow(RowAt(MaxRows, 1))
  \/ RemoveRow(NatToString(1))

SpecHeld == InitHeld /\ [][NextHeld]_vars

\* C39: every setter replaces the state value it changes: an object returned
\* by getSorting, getColumnFilters, getRowSelection, getColumnSizing or
\* getAllRows has the content it was returned with after any later setter
\* call, and once the state differs from that content the getter returns
\* another object.
C39_SettersReplaceState ==
  held.field # "none"
    => /\ held.now = held.value
       /\ held.same => StateValue(held.field) = held.value
====
